---------------------------- MODULE Spec2Model ----------------------------
(***************************************************************************)
(* Model of the prediction pool ("bolao") scripts:                         *)
(*   src/src/utils/pontuacao.py            the scoring engine              *)
(*   src/src/scripts/processar_resultados.py  round processing             *)
(*   src/src/scripts/importar_palpites.py     prediction ingestion         *)
(*                                                                         *)
(* Points are rationals in the code (12 + 1/N).  They are modelled as      *)
(* integers in units of 1/Escala, Escala being a common multiple of every  *)
(* exact-hit count N the model can produce.                                *)
(***************************************************************************)
EXTENDS Integers, Sequences, FiniteSets, TLC

VARIABLES
    \* ---- inputs and output of one call of calcular_pontuacao
    palpite,        \* [palpite_mandante, palpite_visitante]
    resultado,      \* [gols_mandante, gols_visitante]
    total_acertos,  \* total_acertos_exatos argument
    saida,          \* <<>> before the call, <<[pontos, codigo]>> after it; under
                    \* SpecRegras the entry appended to jogos_resultado
    \* ---- files of the championship directory
    regras,         \* regras.json, the "regras" object: rule name -> fields
    tabelaArq,      \* Tabela/tabela.json
    palpitesArq,    \* Participantes/<p>/palpites.json, per participant
    backups,        \* Tabela/tabela_backup_<timestamp>.json: timestamp -> content
    relatorios,     \* Resultados/rodadaNN.txt: round number -> report
    relogio,        \* datetime.now(), in seconds
    \* ---- one run of processar_resultados (its local variables)
    exec,
    \* ---- importar_palpites: under SpecIngest the history of the calls of
    \* atualizar_palpites_participante, under SpecImportar one run of main
    ingest,
    \* ---- one call of a function of utils/parser.py or utils/normalizacao.py
    texto,          \* its argument (a text, a name, a list of predictions)
    analise         \* <<>> before the call, <<[funcao, valor]>> after it

vars == <<palpite, resultado, total_acertos, saida, regras, tabelaArq,
          palpitesArq, backups, relatorios, relogio, exec, ingest, texto,
          analise>>

varsPontuacao == <<palpite, resultado, total_acertos, saida>>
varsArquivos  == <<tabelaArq, palpitesArq, backups, relatorios, relogio>>
varsAnalise   == <<texto, analise>>

-----------------------------------------------------------------------------
(* Bounds of the model *)

\* goal counts of SpecPontuacao range over 0..MaxGols
MaxGols == 3
\* number of participants of the pool
NumParticipantes == 2
\* number of runs of processar_resultados in one behaviour of SpecProc
MaxExecucoes == 2
\* the clock stops advancing at MaxRelogio
MaxRelogio == 2

-----------------------------------------------------------------------------
(* Arithmetic helpers *)

RECURSIVE Fatorial(_)
Fatorial(n) == IF n <= 1 THEN 1 ELSE n * Fatorial(n - 1)

\* one point, in model units: every 1/N with N <= NumParticipantes is integral
Escala == Fatorial(NumParticipantes)

RECURSIVE SomaSeq(_)
SomaSeq(s) == IF s = <<>> THEN 0 ELSE Head(s) + SomaSeq(Tail(s))

-----------------------------------------------------------------------------
(* Rule configuration: config.py and the dict.get chains of pontuacao.py *)

\* regras.get(nome, {}).get(campo, padrao)
RegraCampo(rg, nome, campo, padrao) ==
    IF nome \in DOMAIN rg
    THEN IF campo \in DOMAIN rg[nome] THEN rg[nome][campo] ELSE padrao
    ELSE padrao

\* REGRAS_PONTUACAO_PADRAO (descricao and bonus_divisor are never read)
RegrasPadrao ==
    [ resultado_exato        |-> [pontos_base |-> 12, codigo |-> "AR"],
      vitoria_gols_um_time   |-> [pontos |-> 7,  codigo |-> "VG"],
      vitoria_diferenca_gols |-> [pontos |-> 6,  codigo |-> "VD"],
      vitoria_soma_gols      |-> [pontos |-> 6,  codigo |-> "VS"],
      apenas_vitoria         |-> [pontos |-> 5,  codigo |-> "V"],
      apenas_empate          |-> [pontos |-> 5,  codigo |-> "E"],
      gols_um_time           |-> [pontos |-> 2,  codigo |-> "G"],
      soma_gols              |-> [pontos |-> 1,  codigo |-> "S"],
      resultado_inverso      |-> [pontos |-> -3, codigo |-> "RI"],
      palpite_ausente        |-> [pontos |-> -1, codigo |-> "PA"] ]

\* a configuration that defines only some rules, with other values: the
\* remaining rules fall back to the defaults written in calcular_pontuacao
RegrasParciais ==
    [ resultado_exato   |-> [pontos_base |-> 10, codigo |-> "AR"],
      apenas_vitoria    |-> [pontos |-> 4,  codigo |-> "AV"],
      resultado_inverso |-> [pontos |-> -5, codigo |-> "RI"] ]

ConfRegras == {RegrasPadrao, RegrasParciais}

-----------------------------------------------------------------------------
(* pontuacao.py: the rule predicates *)

verificar_resultado_exato(p, r) ==
    /\ p.palpite_mandante = r.gols_mandante
    /\ p.palpite_visitante = r.gols_visitante

\* both predicted and actual winner are the home side, or both the away side
AcertouVencedor(p, r) ==
    \/ (p.palpite_mandante > p.palpite_visitante /\ r.gols_mandante > r.gols_visitante)
    \/ (p.palpite_visitante > p.palpite_mandante /\ r.gols_visitante > r.gols_mandante)

AcertouEmpate(p, r) ==
    p.palpite_mandante = p.palpite_visitante /\ r.gols_mandante = r.gols_visitante

verificar_vitoria_gols_um_time(p, r) ==
    /\ AcertouVencedor(p, r)
    /\ (p.palpite_mandante = r.gols_mandante) # (p.palpite_visitante = r.gols_visitante)

verificar_vitoria_diferenca_gols(p, r) ==
    /\ AcertouVencedor(p, r)
    /\ p.palpite_mandante - p.palpite_visitante = r.gols_mandante - r.gols_visitante

verificar_vitoria_soma_gols(p, r) ==
    /\ AcertouVencedor(p, r)
    /\ p.palpite_mandante + p.palpite_visitante = r.gols_mandante + r.gols_visitante

verificar_apenas_vitoria(p, r) == AcertouVencedor(p, r)

verificar_apenas_empate(p, r) == AcertouEmpate(p, r)

verificar_gols_um_time_sem_resultado(p, r) ==
    (p.palpite_mandante = r.gols_mandante) # (p.palpite_visitante = r.gols_visitante)

verificar_gols_um_time(p, r) ==
    /\ (p.palpite_mandante = r.gols_mandante) # (p.palpite_visitante = r.gols_visitante)
    /\ ~ (AcertouVencedor(p, r) \/ AcertouEmpate(p, r))

verificar_soma_gols(p, r) ==
    /\ p.palpite_mandante + p.palpite_visitante = r.gols_mandante + r.gols_visitante
    /\ ~ (AcertouVencedor(p, r) \/ AcertouEmpate(p, r))
    /\ ~ (p.palpite_mandante = r.gols_mandante \/ p.palpite_visitante = r.gols_visitante)

verificar_resultado_inverso_com_empate(p, r) ==
    /\ p.palpite_mandante = r.gols_visitante
    /\ p.palpite_visitante = r.gols_mandante

verificar_resultado_inverso(p, r) ==
    /\ p.palpite_mandante = r.gols_visitante
    /\ p.palpite_visitante = r.gols_mandante
    /\ ~ (p.palpite_mandante = p.palpite_visitante /\ r.gols_mandante = r.gols_visitante)

\* 1/N in model units; 0.0 when N <= 0
calcular_bonus_resultado_exato(n) ==
    IF n <= 0 THEN 0 ELSE Escala \div n

-----------------------------------------------------------------------------
(* pontuacao.py: calcular_pontuacao, the ordered chain of early returns *)

\* the same chain with "apenas vitoria" tested before the three
\* "vitoria + ..." rules
calcular_pontuacao_vitoria_primeiro(p, r, rg, n) ==
    IF verificar_resultado_inverso(p, r)
    THEN [pontos |-> Escala * RegraCampo(rg, "resultado_inverso", "pontos", -3),
          codigo |-> RegraCampo(rg, "resultado_inverso", "codigo", "RI")]
    ELSE IF verificar_resultado_exato(p, r)
    THEN [pontos |-> Escala * RegraCampo(rg, "resultado_exato", "pontos_base", 12)
                       + calcular_bonus_resultado_exato(n),
          codigo |-> RegraCampo(rg, "resultado_exato", "codigo", "AR")]
    ELSE IF verificar_apenas_vitoria(p, r)
    THEN [pontos |-> Escala * RegraCampo(rg, "apenas_vitoria", "pontos", 5),
          codigo |-> RegraCampo(rg, "apenas_vitoria", "codigo", "AV")]
    ELSE IF verificar_vitoria_gols_um_time(p, r)
    THEN [pontos |-> Escala * RegraCampo(rg, "vitoria_gols_um_time", "pontos", 7),
          codigo |-> RegraCampo(rg, "vitoria_gols_um_time", "codigo", "VG")]
    ELSE IF verificar_vitoria_diferenca_gols(p, r)
    THEN [pontos |-> Escala * RegraCampo(rg, "vitoria_diferenca_gols", "pontos", 6),
          codigo |-> RegraCampo(rg, "vitoria_diferenca_gols", "codigo", "VD")]
    ELSE IF verificar_vitoria_soma_gols(p, r)
    THEN [pontos |-> Escala * RegraCampo(rg, "vitoria_soma_gols", "pontos", 6),
          codigo |-> RegraCampo(rg, "vitoria_soma_gols", "codigo", "VS")]
    ELSE IF verificar_apenas_empate(p, r)
    THEN [pontos |-> Escala * RegraCampo(rg, "apenas_empate", "pontos", 5),
          codigo |-> RegraCampo(rg, "apenas_empate", "codigo", "AE")]
    ELSE IF verificar_gols_um_time(p, r)
    THEN [pontos |-> Escala * RegraCampo(rg, "gols_um_time", "pontos", 2),
          codigo |-> RegraCampo(rg, "gols_um_time", "codigo", "AG")]
    ELSE IF verificar_soma_gols(p, r)
    THEN [pontos |-> Escala * RegraCampo(rg, "soma_gols", "pontos", 1),
          codigo |-> RegraCampo(rg, "soma_gols", "codigo", "AS")]
    ELSE [pontos |-> 0, codigo |-> "NP"]

calcular_pontuacao(p, r, rg, n) ==
    IF verificar_resultado_inverso(p, r)
    THEN [pontos |-> Escala * RegraCampo(rg, "resultado_inverso", "pontos", -3),
          codigo |-> RegraCampo(rg, "resultado_inverso", "codigo", "RI")]
    ELSE IF verificar_resultado_exato(p, r)
    THEN [pontos |-> Escala * RegraCampo(rg, "resultado_exato", "pontos_base", 12)
                       + calcular_bonus_resultado_exato(n),
          codigo |-> RegraCampo(rg, "resultado_exato", "codigo", "AR")]
    ELSE IF verificar_vitoria_gols_um_time(p, r)
    THEN [pontos |-> Escala * RegraCampo(rg, "vitoria_gols_um_time", "pontos", 7),
          codigo |-> RegraCampo(rg, "vitoria_gols_um_time", "codigo", "VG")]
    ELSE IF verificar_vitoria_diferenca_gols(p, r)
    THEN [pontos |-> Escala * RegraCampo(rg, "vitoria_diferenca_gols", "pontos", 6),
          codigo |-> RegraCampo(rg, "vitoria_diferenca_gols", "codigo", "VD")]
    ELSE IF verificar_vitoria_soma_gols(p, r)
    THEN [pontos |-> Escala * RegraCampo(rg, "vitoria_soma_gols", "pontos", 6),
          codigo |-> RegraCampo(rg, "vitoria_soma_gols", "codigo", "VS")]
    ELSE IF verificar_apenas_vitoria(p, r)
    THEN [pontos |-> Escala * RegraCampo(rg, "apenas_vitoria", "pontos", 5),
          codigo |-> RegraCampo(rg, "apenas_vitoria", "codigo", "AV")]
    ELSE IF verificar_apenas_empate(p, r)
    THEN [pontos |-> Escala * RegraCampo(rg, "apenas_empate", "pontos", 5),
          codigo |-> RegraCampo(rg, "apenas_empate", "codigo", "AE")]
    ELSE IF verificar_gols_um_time(p, r)
    THEN [pontos |-> Escala * RegraCampo(rg, "gols_um_time", "pontos", 2),
          codigo |-> RegraCampo(rg, "gols_um_time", "codigo", "AG")]
    ELSE IF verificar_soma_gols(p, r)
    THEN [pontos |-> Escala * RegraCampo(rg, "soma_gols", "pontos", 1),
          codigo |-> RegraCampo(rg, "soma_gols", "codigo", "AS")]
    ELSE [pontos |-> 0, codigo |-> "NP"]

\* calcular_pontuacao_palpite_ausente: the constants -1.0 and 'PA'
calcular_pontuacao_palpite_ausente == [pontos |-> Escala * (-1), codigo |-> "PA"]

-----------------------------------------------------------------------------
(* The championship data: tabela.json and the participants' palpites.json *)

Participantes == 1..NumParticipantes

\* one game of tabela.json (data and local are never read by the scripts)
Jogo(id, mandante, visitante, gm, gv, status, obrigatorio) ==
    [id |-> id, mandante |-> mandante, visitante |-> visitante,
     gols_mandante |-> gm, gols_visitante |-> gv,
     status |-> status, obrigatorio |-> obrigatorio]

\* one stored prediction of palpites.json
JogoPalpite(id, mandante, visitante, pm, pv) ==
    [id |-> id, mandante |-> mandante, visitante |-> visitante,
     palpite_mandante |-> pm, palpite_visitante |-> pv]

\* positions of the entries of a list that satisfy Test
RECURSIVE PrimeiroIndice(_, _, _)
PrimeiroIndice(s, Test(_), i) ==
    IF i > Len(s) THEN 0
    ELSE IF Test(s[i]) THEN i ELSE PrimeiroIndice(s, Test, i + 1)

-----------------------------------------------------------------------------
(* processar_resultados.py: the pure steps of a run *)

RodadaNaTabela(tabela, numero_rodada) ==
    \E i \in 1..Len(tabela.rodadas) : tabela.rodadas[i].numero = numero_rodada

\* the games of the first round entry with that number; callers test
\* RodadaNaTabela first (the code raises ValueError otherwise)
obter_jogos_rodada(tabela, numero_rodada) ==
    LET Eh(r) == r.numero = numero_rodada
    IN  tabela.rodadas[PrimeiroIndice(tabela.rodadas, Eh, 1)].jogos

JogoPendente(jogo) == jogo.obrigatorio /\ jogo.status # "finalizado"

\* only the first pending game is reported
validar_jogos_obrigatorios_so_primeiro(jogos) ==
    LET pend == SelectSeq(jogos, JogoPendente)
    IN  [todos_finalizados |-> Len(pend) = 0,
         jogos_pendentes |-> IF pend = <<>> THEN <<>> ELSE <<Head(pend).id>>]

\* (todos_finalizados, jogos_pendentes); a pending game is listed by its id
validar_jogos_obrigatorios_finalizados(jogos) ==
    LET pend == SelectSeq(jogos, JogoPendente)
    IN  [todos_finalizados |-> Len(pend) = 0,
         jogos_pendentes |-> [i \in 1..Len(pend) |-> pend[i].id]]

\* {id_jogo: palpite} of the first entry of that round; a later stored
\* prediction of the same id overwrites an earlier one
obter_palpites_participante_rodada(palpites_participante, numero_rodada) ==
    LET entradas == palpites_participante.palpites
        Eh(e) == e.rodada = numero_rodada
        k == PrimeiroIndice(entradas, Eh, 1)
        js == IF k = 0 THEN <<>> ELSE entradas[k].jogos
        ids == {js[i].id : i \in 1..Len(js)}
        Ultimo(id) == CHOOSE i \in 1..Len(js) :
                         /\ js[i].id = id
                         /\ \A j \in (i+1)..Len(js) : js[j].id # id
    IN  [id \in ids |-> js[Ultimo(id)]]

PalpiteExato(pal, jogo) ==
    /\ pal.palpite_mandante = jogo.gols_mandante
    /\ pal.palpite_visitante = jogo.gols_visitante

\* number of records of the list todos_palpites with an exact prediction
RECURSIVE ContarExatos(_, _, _)
ContarExatos(jogo, todos_palpites, numero_rodada) ==
    IF todos_palpites = <<>> THEN 0
    ELSE LET pr == obter_palpites_participante_rodada(Head(todos_palpites), numero_rodada)
             um == IF jogo.id \in DOMAIN pr /\ PalpiteExato(pr[jogo.id], jogo)
                   THEN 1 ELSE 0
         IN  um + ContarExatos(jogo, Tail(todos_palpites), numero_rodada)

\* the count ignores every record but the first of the list
contar_acertos_so_primeiro(jogos, todos_palpites, numero_rodada) ==
    LET fin == SelectSeq(jogos, LAMBDA j : j.status = "finalizado")
        JogoDe(id) == fin[CHOOSE i \in 1..Len(fin) : fin[i].id = id]
    IN  [id \in {fin[i].id : i \in 1..Len(fin)} |->
            ContarExatos(JogoDe(id), SubSeq(todos_palpites, 1, 1), numero_rodada)]

\* {id_jogo: numero_acertos_exatos}, for the finalized games only
contar_acertos_exatos_por_jogo(jogos, todos_palpites, numero_rodada) ==
    LET fin == SelectSeq(jogos, LAMBDA j : j.status = "finalizado")
        JogoDe(id) == fin[CHOOSE i \in 1..Len(fin) : fin[i].id = id]
    IN  [id \in {fin[i].id : i \in 1..Len(fin)} |->
            ContarExatos(JogoDe(id), todos_palpites, numero_rodada)]

\* the loop body without the test of "obrigatorio": every finalized game
\* without a prediction is penalised
PontuarJogoSemObrigatorio(jogo, palpites_rodada, rg, acertos) ==
    IF jogo.status # "finalizado" THEN <<>>
    ELSE IF jogo.id \in DOMAIN palpites_rodada
    THEN LET n == IF jogo.id \in DOMAIN acertos THEN acertos[jogo.id] ELSE 1
             pc == calcular_pontuacao(palpites_rodada[jogo.id], jogo, rg, n)
         IN  <<[id |-> jogo.id, pontos |-> pc.pontos,
                codigo_regra |-> pc.codigo, participou |-> TRUE]>>
    ELSE <<[id |-> jogo.id, pontos |-> calcular_pontuacao_palpite_ausente.pontos,
            codigo_regra |-> calcular_pontuacao_palpite_ausente.codigo,
            participou |-> FALSE]>>

\* the loop body skipping every game that is not mandatory
PontuarJogoSoObrigatorio(jogo, palpites_rodada, rg, acertos) ==
    IF jogo.status # "finalizado" \/ ~ jogo.obrigatorio THEN <<>>
    ELSE IF jogo.id \in DOMAIN palpites_rodada
    THEN LET n == IF jogo.id \in DOMAIN acertos THEN acertos[jogo.id] ELSE 1
             pc == calcular_pontuacao(palpites_rodada[jogo.id], jogo, rg, n)
         IN  <<[id |-> jogo.id, pontos |-> pc.pontos,
                codigo_regra |-> pc.codigo, participou |-> TRUE]>>
    ELSE <<[id |-> jogo.id, pontos |-> calcular_pontuacao_palpite_ausente.pontos,
            codigo_regra |-> calcular_pontuacao_palpite_ausente.codigo,
            participou |-> FALSE]>>

\* the loop body of calcular_pontuacao_participante for one game: the list
\* of result entries it appends (none or one)
PontuarJogo(jogo, palpites_rodada, rg, acertos) ==
    IF jogo.status # "finalizado" THEN <<>>
    ELSE IF jogo.id \in DOMAIN palpites_rodada
    THEN LET n == IF jogo.id \in DOMAIN acertos THEN acertos[jogo.id] ELSE 1
             pc == calcular_pontuacao(palpites_rodada[jogo.id], jogo, rg, n)
         IN  <<[id |-> jogo.id, pontos |-> pc.pontos,
                codigo_regra |-> pc.codigo, participou |-> TRUE]>>
    ELSE IF jogo.obrigatorio
    THEN <<[id |-> jogo.id, pontos |-> calcular_pontuacao_palpite_ausente.pontos,
            codigo_regra |-> calcular_pontuacao_palpite_ausente.codigo,
            participou |-> FALSE]>>
    ELSE <<>>

RECURSIVE PontuarJogos(_, _, _, _)
PontuarJogos(jogos, palpites_rodada, rg, acertos) ==
    IF jogos = <<>> THEN <<>>
    ELSE PontuarJogo(Head(jogos), palpites_rodada, rg, acertos)
         \o PontuarJogos(Tail(jogos), palpites_rodada, rg, acertos)

\* the result record of one participant for one round; "participou" of an
\* entry records whether the loop incremented jogos_participados for it
calcular_pontuacao_participante(participante, jogos, rg, numero_rodada, acertos) ==
    LET pr == obter_palpites_participante_rodada(participante, numero_rodada)
        js == PontuarJogos(jogos, pr, rg, acertos)
    IN  [participante |-> participante.apostador,
         jogos |-> js,
         total_rodada |-> SomaSeq([i \in 1..Len(js) |-> js[i].pontos]),
         jogos_participados |-> Len(SelectSeq(js, LAMBDA e : e.participou))]

\* the earlier round scored with the exact hits of the first record only
TotalRodadaAcertosDoPrimeiro(participante, tabela, todos_palpites, rg, rodada_num) ==
    IF ~ RodadaNaTabela(tabela, rodada_num) THEN 0
    ELSE LET jogos_rodada == obter_jogos_rodada(tabela, rodada_num)
             acertos == contar_acertos_so_primeiro(jogos_rodada, todos_palpites, rodada_num)
         IN  calcular_pontuacao_participante(participante, jogos_rodada, rg,
                                             rodada_num, acertos).total_rodada

\* total_rodada of one participant in an earlier round; 0 when the round is
\* not in the schedule (the ValueError of obter_jogos_rodada is swallowed)
TotalRodadaAnterior(participante, tabela, todos_palpites, rg, rodada_num) ==
    IF ~ RodadaNaTabela(tabela, rodada_num) THEN 0
    ELSE LET jogos_rodada == obter_jogos_rodada(tabela, rodada_num)
             acertos == contar_acertos_exatos_por_jogo(jogos_rodada, todos_palpites, rodada_num)
         IN  calcular_pontuacao_participante(participante, jogos_rodada, rg,
                                             rodada_num, acertos).total_rodada

RECURSIVE SomaRodadas(_, _, _, _, _)
SomaRodadas(participante, tabela, todos_palpites, rg, ate) ==
    IF ate < 1 THEN 0
    ELSE TotalRodadaAnterior(participante, tabela, todos_palpites, rg, ate)
         + SomaRodadas(participante, tabela, todos_palpites, rg, ate - 1)

\* participantes_map[nome]: the last record of the list with that name
RegistroDe(todos_palpites, nome) ==
    todos_palpites[CHOOSE i \in 1..Len(todos_palpites) :
                      /\ todos_palpites[i].apostador = nome
                      /\ \A j \in (i+1)..Len(todos_palpites) :
                            todos_palpites[j].apostador # nome]

\* each result gets total_acumulado: its round total plus rounds 1..rodada_atual-1
calcular_pontuacao_acumulada(resultados_rodada, tabela, todos_palpites, rg, rodada_atual) ==
    [i \in 1..Len(resultados_rodada) |->
        LET res == resultados_rodada[i]
            nome == res.participante
            anteriores ==
                IF \E k \in 1..Len(todos_palpites) : todos_palpites[k].apostador = nome
                THEN SomaRodadas(RegistroDe(todos_palpites, nome), tabela,
                                 todos_palpites, rg, rodada_atual - 1)
                ELSE 0
        IN  [participante |-> res.participante, jogos |-> res.jogos,
             total_rodada |-> res.total_rodada,
             jogos_participados |-> res.jogos_participados,
             total_acumulado |-> res.total_rodada + anteriores]]

\* an insertion that puts the new record before the records of equal total
RECURSIVE InserirAntesDosIguais(_, _)
InserirAntesDosIguais(ordenados, x) ==
    IF ordenados = <<>> THEN <<x>>
    ELSE IF Head(ordenados).total_acumulado > x.total_acumulado
         THEN <<Head(ordenados)>> \o InserirAntesDosIguais(Tail(ordenados), x)
         ELSE <<x>> \o ordenados

\* sorted(..., key=total_acumulado, reverse=True): stable, descending
RECURSIVE InserirOrdenado(_, _)
InserirOrdenado(ordenados, x) ==
    IF ordenados = <<>> THEN <<x>>
    ELSE IF Head(ordenados).total_acumulado >= x.total_acumulado
         THEN <<Head(ordenados)>> \o InserirOrdenado(Tail(ordenados), x)
         ELSE <<x>> \o ordenados

RECURSIVE OrdenarEstavel(_, _)
OrdenarEstavel(feitos, resto) ==
    IF resto = <<>> THEN feitos
    ELSE OrdenarEstavel(InserirOrdenado(feitos, Head(resto)), Tail(resto))

gerar_classificacao_ordenada(resultados) == OrdenarEstavel(<<>>, resultados)

\* the ranking up to the previous round, recomputed from the stored
\* predictions, one record per name of participantes_map (first-insertion order)
ClassificacaoAnterior(tabela, todos_palpites, rg, rodada_atual) ==
    LET primeiros == SelectSeq(
            [i \in 1..Len(todos_palpites) |-> [k |-> i, r |-> todos_palpites[i]]],
            LAMBDA e : \A j \in 1..(e.k - 1) :
                          todos_palpites[j].apostador # e.r.apostador)
        anteriores == [i \in 1..Len(primeiros) |->
            LET nome == primeiros[i].r.apostador
            IN  [participante |-> nome,
                 total_acumulado |-> SomaRodadas(RegistroDe(todos_palpites, nome), tabela,
                                                 todos_palpites, rg, rodada_atual - 1)]]
    IN  OrdenarEstavel(<<>>, anteriores)

\* posicoes_anteriores.get(nome, posicao_atual): the position of the name in
\* the previous ranking (the last one, were it listed twice)
PosicaoAnterior(ant, nome, atual) ==
    IF \E k \in 1..Len(ant) : ant[k].participante = nome
    THEN CHOOSE k \in 1..Len(ant) :
            /\ ant[k].participante = nome
            /\ \A j \in (k+1)..Len(ant) : ant[j].participante # nome
    ELSE atual

\* tied participants share the position of the first of them
calcular_variacao_posicao_empatada(resultados, tabela, todos_palpites, rg, rodada_atual) ==
    [i \in 1..Len(resultados) |->
        [participante |-> resultados[i].participante,
         jogos |-> resultados[i].jogos,
         total_rodada |-> resultados[i].total_rodada,
         jogos_participados |-> resultados[i].jogos_participados,
         total_acumulado |-> resultados[i].total_acumulado,
         posicao |-> CHOOSE k \in 1..i :
                        /\ resultados[k].total_acumulado = resultados[i].total_acumulado
                        /\ \A j \in 1..(k - 1) :
                              resultados[j].total_acumulado # resultados[i].total_acumulado,
         variacao |-> 0]]

\* the variation with the sign the other way: current minus previous
calcular_variacao_posicao_invertida(resultados, tabela, todos_palpites, rg, rodada_atual) ==
    LET semVariacao == rodada_atual <= 1 \/ ~ RodadaNaTabela(tabela, rodada_atual - 1)
        ant == IF semVariacao THEN <<>>
               ELSE ClassificacaoAnterior(tabela, todos_palpites, rg, rodada_atual)
    IN  [i \in 1..Len(resultados) |->
            [participante |-> resultados[i].participante,
             jogos |-> resultados[i].jogos,
             total_rodada |-> resultados[i].total_rodada,
             jogos_participados |-> resultados[i].jogos_participados,
             total_acumulado |-> resultados[i].total_acumulado,
             posicao |-> i,
             variacao |-> IF semVariacao THEN 0
                          ELSE i - PosicaoAnterior(ant, resultados[i].participante, i)]]

\* each result of the sorted list gets posicao and variacao
calcular_variacao_posicao_participantes(resultados, tabela, todos_palpites, rg, rodada_atual) ==
    LET semVariacao == rodada_atual <= 1 \/ ~ RodadaNaTabela(tabela, rodada_atual - 1)
        ant == IF semVariacao THEN <<>>
               ELSE ClassificacaoAnterior(tabela, todos_palpites, rg, rodada_atual)
    IN  [i \in 1..Len(resultados) |->
            [participante |-> resultados[i].participante,
             jogos |-> resultados[i].jogos,
             total_rodada |-> resultados[i].total_rodada,
             jogos_participados |-> resultados[i].jogos_participados,
             total_acumulado |-> resultados[i].total_acumulado,
             posicao |-> i,
             variacao |-> IF semVariacao THEN 0
                          ELSE PosicaoAnterior(ant, resultados[i].participante, i) - i]]

\* criar_backup_tabela: the file is copied under the name of the timestamp
criar_backup_tabela(bk, conteudo, timestamp) ==
    [t \in DOMAIN bk \cup {timestamp} |-> IF t = timestamp THEN conteudo ELSE bk[t]]

\* the file is rewritten from a new object that holds the pointer and the
\* rounds only
atualizar_rodada_atual_sem_cabecalho(conteudo, nova_rodada) ==
    [campeonato |-> "", temporada |-> "", codigo_campeonato |-> "",
     rodada_atual |-> nova_rodada, rodadas |-> conteudo.rodadas]

\* atualizar_rodada_atual: load, set the field, dump
atualizar_rodada_atual(conteudo, nova_rodada) ==
    [conteudo EXCEPT !.rodada_atual = nova_rodada]

\* salvar_relatorio_rodada: rodadaNN.txt holds the timestamp, the standings
\* table and the summary, both rendered from the results
salvar_relatorio_rodada(rel, numero_rodada, timestamp, resultados) ==
    [n \in DOMAIN rel \cup {numero_rodada} |->
        IF n = numero_rodada
        THEN [gerado_em |-> timestamp, classificacao |-> resultados]
        ELSE rel[n]]

-----------------------------------------------------------------------------
(* The pools the model starts from *)

\* one entry of the "palpites" list; apostas_extras is <<>> while the entry
\* has no such key and <<lista>> once it has
EntradaRodada(rodada, data, jogos) ==
    [rodada |-> rodada, data_palpite |-> data, jogos |-> jogos,
     apostas_extras |-> <<>>]

\* the official scores, once a game is finalized; a scheduled game holds 0x0
\* (importar_tabela writes gols 0, status "agendado")
JogoDaTabela(id, finalizado, obrigatorio) ==
    LET st == IF finalizado THEN "finalizado" ELSE "agendado"
    IN  CASE id = "jogo-001" ->
               Jogo(id, "Flamengo", "Palmeiras", IF finalizado THEN 2 ELSE 0,
                    IF finalizado THEN 1 ELSE 0, st, obrigatorio)
          [] id = "jogo-002" ->
               Jogo(id, "Santos", "Gremio", IF finalizado THEN 1 ELSE 0,
                    IF finalizado THEN 1 ELSE 0, st, obrigatorio)
          [] id = "jogo-003" ->
               Jogo(id, "Palmeiras", "Santos", 0,
                    IF finalizado THEN 1 ELSE 0, st, obrigatorio)

\* a schedule of two rounds: round 1 holds jogo-001 and jogo-002, round 2
\* holds jogo-003; f and o give each game's finalized and mandatory flags
\* a schedule of two rounds, the second one numbered n2
TabelaNumerada(f, o, n2) ==
    [campeonato |-> "Brasileirao", temporada |-> "2025",
     codigo_campeonato |-> "BR25", rodada_atual |-> 0,
     rodadas |-> << [numero |-> 1,
                     jogos |-> << JogoDaTabela("jogo-001", f[1], o[1]),
                                  JogoDaTabela("jogo-002", f[2], o[2]) >>],
                    [numero |-> n2,
                     jogos |-> << JogoDaTabela("jogo-003", f[3], o[3]) >>] >>]

Tabela(f, o) == TabelaNumerada(f, o, 2)

\* schedules in which round 2 was never imported: rounds 1 and 3, every game
\* finalized, the game of round 3 mandatory
TabelasComLacuna ==
    { TabelaNumerada([i \in 1..3 |-> TRUE], o, 3) : o \in { g \in [1..3 -> BOOLEAN] : g[3] } }

Tabelas ==
    { Tabela(f, o) : f \in [1..3 -> BOOLEAN], o \in [1..3 -> BOOLEAN] }
       \cup TabelasComLacuna

TabelaVazia ==
    [campeonato |-> "", temporada |-> "", codigo_campeonato |-> "",
     rodada_atual |-> 0, rodadas |-> <<>>]

P1(pm, pv) == JogoPalpite("jogo-001", "Flamengo", "Palmeiras", pm, pv)
P2(pm, pv) == JogoPalpite("jogo-002", "Santos", "Gremio", pm, pv)
P3(pm, pv) == JogoPalpite("jogo-003", "Palmeiras", "Santos", pm, pv)

\* what one participant may have stored (the "palpites" list of palpites.json)
\* every score exact
PerfilExato ==
    << EntradaRodada(1, 0, <<P1(2, 1), P2(1, 1)>>), EntradaRodada(2, 0, <<P3(0, 1)>>) >>
\* inverted score, one game missing
PerfilInvertido ==
    << EntradaRodada(1, 0, <<P1(1, 2)>>), EntradaRodada(2, 0, <<P3(0, 2)>>) >>
\* exact, draw with another score, round 2 missing
PerfilParcial ==
    << EntradaRodada(1, 0, <<P1(2, 1), P2(0, 0)>>) >>
\* the same game stored twice (two lines of one submission), round 2 first
PerfilRepetido ==
    << EntradaRodada(2, 0, <<P3(1, 0)>>),
       EntradaRodada(1, 0, <<P1(3, 1), P1(2, 1), P2(2, 1)>>) >>

\* one exact score in round 1, the exact score of the game of round 3
PerfilTerceira ==
    << EntradaRodada(1, 0, <<P1(2, 1)>>), EntradaRodada(3, 0, <<P3(0, 1)>>) >>

PerfisPalpites ==
    { <<>>, PerfilExato, PerfilInvertido, PerfilParcial, PerfilRepetido, PerfilTerceira }

Registro(apostador, palpites) == [apostador |-> apostador, palpites |-> palpites]

\* iterdir() yields the participant directories in an arbitrary order
OrdensDiretorio ==
    { [i \in 1..NumParticipantes |-> i],
      [i \in 1..NumParticipantes |-> NumParticipantes + 1 - i] }

ExecInicial ==
    [pc |-> "ocioso", modo |-> "teste", rodada |-> 0, nexec |-> 0,
     tabela |-> TabelaVazia, todos |-> <<>>, pendentes |-> <<>>,
     contado |-> FALSE, acertos |-> <<>>, resultados |-> <<>>,
     classificado |-> FALSE, retorno |-> "nenhum", nome_backup |-> <<>>,
     inicio |-> [tabela |-> TabelaVazia, backups |-> <<>>, relatorios |-> <<>>]]

\* the submissions imported so far: how many, the last one, and whether the
\* last one repeated the one before it
IngestInicial ==
    [n |-> 0, ultimo |-> <<>>, repetiu |-> FALSE]

-----------------------------------------------------------------------------
(* SpecPontuacao: one call of calcular_pontuacao on arbitrary goal counts *)

Gols == 0..MaxGols

InitPontuacao ==
    /\ palpite \in [palpite_mandante : Gols, palpite_visitante : Gols]
    /\ resultado \in [gols_mandante : Gols, gols_visitante : Gols]
    /\ total_acertos \in 0..NumParticipantes
    /\ regras \in ConfRegras
    /\ saida = <<>>
    /\ tabelaArq = TabelaVazia
    /\ palpitesArq = <<>>
    /\ backups = <<>>
    /\ relatorios = <<>>
    /\ relogio = 0
    /\ exec = ExecInicial
    /\ ingest = IngestInicial
    /\ texto = <<>>
    /\ analise = <<>>

Pontuar ==
    /\ saida = <<>>
    /\ saida' = <<calcular_pontuacao(palpite, resultado, regras, total_acertos)>>
    /\ UNCHANGED <<palpite, resultado, total_acertos, regras, varsArquivos, exec, ingest, varsAnalise>>

NextPontuacao == Pontuar

SpecPontuacao == InitPontuacao /\ [][NextPontuacao]_vars

-----------------------------------------------------------------------------
(* processar_resultados.py: a run of processar_resultados_modo_teste or      *)
(* processar_resultados_modo_final, one action per step between two points  *)
(* where the run can end or touch a file                                    *)

\* todos_palpites: the records loaded by carregar_dados_campeonato, in the
\* order of the directory listing
TodosPalpites == [i \in 1..Len(exec.todos) |-> palpitesArq[exec.todos[i]]]

\* a preview run that goes through the steps of the final mode
SequenciaSemModo(modo, pc) ==
    CASE pc = "validado"    -> "confirmar"
      [] pc = "confirmar"   -> "backup"
      [] pc = "backup"      -> "contar"
      [] pc = "contar"      -> "pontuar"
      [] pc = "pontuar"     -> "acumular"
      [] pc = "acumular"    -> "ordenar"
      [] pc = "ordenar"     -> "variacao"
      [] pc = "variacao"    -> "atualizar"
      [] pc = "atualizar"   -> "salvar"
      [] pc = "salvar"      -> "fim"

\* a final run that does not create the backup
SequenciaSemBackup(modo, pc) ==
    CASE pc = "validado"    -> IF modo = "final" THEN "confirmar" ELSE "contar"
      [] pc = "confirmar"   -> "contar"
      [] pc = "backup"      -> "contar"
      [] pc = "contar"      -> "pontuar"
      [] pc = "pontuar"     -> "acumular"
      [] pc = "acumular"    -> "ordenar"
      [] pc = "ordenar"     -> "variacao"
      [] pc = "variacao"    -> IF modo = "final" THEN "atualizar" ELSE "fim"
      [] pc = "atualizar"   -> "salvar"
      [] pc = "salvar"      -> "fim"

\* the step that follows a step that succeeded, in the order of the
\* statements of processar_resultados_modo_teste / _modo_final
Sequencia(modo, pc) ==
    CASE pc = "validado"    -> IF modo = "final" THEN "confirmar" ELSE "contar"
      [] pc = "confirmar"   -> "backup"
      [] pc = "backup"      -> "contar"
      [] pc = "contar"      -> "pontuar"
      [] pc = "pontuar"     -> "acumular"
      [] pc = "acumular"    -> "ordenar"
      [] pc = "ordenar"     -> "variacao"
      [] pc = "variacao"    -> IF modo = "final" THEN "atualizar" ELSE "fim"
      [] pc = "atualizar"   -> "salvar"
      [] pc = "salvar"      -> "fim"

\* the run moves on after a successful step; reaching the end is "return True"
Avancar(e) ==
    LET prox == Sequencia(e.modo, e.pc)
    IN  [e EXCEPT !.pc = prox,
                  !.retorno = IF prox = "fim" THEN "sucesso" ELSE e.retorno]

\* "return False", from a failed validation, a refusal or a caught exception
Falhar(e) == [e EXCEPT !.pc = "fim", !.retorno = "falha"]

\* carregar_dados_campeonato, obter_jogos_rodada and
\* validar_jogos_obrigatorios_finalizados: the run starts, reads the files
\* and validates the round
Iniciar(modo, numero_rodada, limite) ==
    /\ exec.pc \in {"ocioso", "fim"}
    /\ exec.nexec < limite
    /\ \E ordem \in OrdensDiretorio :
         LET e0 == [ExecInicial EXCEPT
                        !.pc = "validado", !.modo = modo, !.rodada = numero_rodada,
                        !.nexec = exec.nexec + 1,
                        !.tabela = tabelaArq, !.todos = ordem,
                        !.inicio = [tabela |-> tabelaArq, backups |-> backups,
                                    relatorios |-> relatorios]]
         IN  IF ~ RodadaNaTabela(tabelaArq, numero_rodada)
             THEN exec' = Falhar(e0)
             ELSE LET v == validar_jogos_obrigatorios_finalizados(
                               obter_jogos_rodada(tabelaArq, numero_rodada))
                  IN  IF ~ v.todos_finalizados
                      THEN exec' = Falhar([e0 EXCEPT !.pendentes = v.jogos_pendentes])
                      ELSE exec' = Avancar(e0)
    /\ UNCHANGED <<varsPontuacao, regras, varsArquivos, ingest, varsAnalise>>

\* input("Deseja continuar? (s/N)")
Confirmar ==
    /\ exec.pc = "confirmar"
    /\ \E sim \in BOOLEAN : exec' = IF sim THEN Avancar(exec) ELSE Falhar(exec)
    /\ UNCHANGED <<varsPontuacao, regras, varsArquivos, ingest, varsAnalise>>

\* criar_backup_tabela, named after the current second
CriarBackup ==
    /\ exec.pc = "backup"
    /\ \E t \in {relogio, IF relogio < MaxRelogio THEN relogio + 1 ELSE relogio} :
         /\ relogio' = t
         /\ \/ /\ backups' = criar_backup_tabela(backups, tabelaArq, t)
               /\ exec' = [Avancar(exec) EXCEPT !.nome_backup = <<t>>]
            \/ /\ backups' = backups          \* IOError
               /\ exec' = Falhar(exec)
    /\ UNCHANGED <<varsPontuacao, regras, tabelaArq, palpitesArq, relatorios, ingest, varsAnalise>>

JogosDaExecucao == obter_jogos_rodada(exec.tabela, exec.rodada)

ContarAcertos ==
    /\ exec.pc = "contar"
    /\ exec' = [Avancar(exec) EXCEPT
                    !.contado = TRUE,
                    !.acertos = contar_acertos_exatos_por_jogo(
                                    JogosDaExecucao, TodosPalpites, exec.rodada)]
    /\ UNCHANGED <<varsPontuacao, regras, varsArquivos, ingest, varsAnalise>>

\* one iteration of "for participante in todos_palpites"
PontuarParticipante ==
    /\ exec.pc = "pontuar"
    /\ LET i == Len(exec.resultados) + 1
           res == calcular_pontuacao_participante(
                      TodosPalpites[i], JogosDaExecucao, regras, exec.rodada, exec.acertos)
           e1 == [exec EXCEPT !.resultados = Append(exec.resultados, res)]
       IN  exec' = IF i = Len(exec.todos) THEN Avancar(e1) ELSE e1
    /\ UNCHANGED <<varsPontuacao, regras, varsArquivos, ingest, varsAnalise>>

\* calcular_pontuacao_acumulada, gerar_classificacao_ordenada and
\* calcular_variacao_posicao_participantes (the reports are rendered from
\* their result)
AcumularPontuacao ==
    /\ exec.pc = "acumular"
    /\ exec' = [Avancar(exec) EXCEPT !.resultados =
                   calcular_pontuacao_acumulada(
                       exec.resultados, exec.tabela, TodosPalpites, regras, exec.rodada)]
    /\ UNCHANGED <<varsPontuacao, regras, varsArquivos, ingest, varsAnalise>>

OrdenarClassificacao ==
    /\ exec.pc = "ordenar"
    /\ exec' = [Avancar(exec) EXCEPT !.resultados =
                   gerar_classificacao_ordenada(exec.resultados)]
    /\ UNCHANGED <<varsPontuacao, regras, varsArquivos, ingest, varsAnalise>>

\* with posicao and variacao the standings of the run are complete
CalcularVariacao ==
    /\ exec.pc = "variacao"
    /\ exec' = [Avancar(exec) EXCEPT
                   !.resultados = calcular_variacao_posicao_participantes(
                       exec.resultados, exec.tabela, TodosPalpites, regras, exec.rodada),
                   !.classificado = TRUE]
    /\ UNCHANGED <<varsPontuacao, regras, varsArquivos, ingest, varsAnalise>>

AtualizarRodadaAtual ==
    /\ exec.pc = "atualizar"
    /\ \/ /\ tabelaArq' = atualizar_rodada_atual(tabelaArq, exec.rodada)
          /\ exec' = Avancar(exec)
       \/ /\ tabelaArq' = tabelaArq           \* IOError
          /\ exec' = Falhar(exec)
    /\ UNCHANGED <<varsPontuacao, regras, palpitesArq, backups, relatorios, relogio, ingest, varsAnalise>>

SalvarRelatorio ==
    /\ exec.pc = "salvar"
    /\ \/ /\ relatorios' = salvar_relatorio_rodada(relatorios, exec.rodada, relogio,
                                                    exec.resultados)
          /\ exec' = Avancar(exec)
       \/ /\ relatorios' = relatorios         \* IOError
          /\ exec' = Falhar(exec)
    /\ UNCHANGED <<varsPontuacao, regras, tabelaArq, palpitesArq, backups, relogio, ingest, varsAnalise>>

RodadasPedidas == 1..3

-----------------------------------------------------------------------------
(* SpecRodada: one preview run over every pool of Tabelas x PerfisPalpites *)

InitRodada ==
    /\ palpite = [palpite_mandante |-> 0, palpite_visitante |-> 0]
    /\ resultado = [gols_mandante |-> 0, gols_visitante |-> 0]
    /\ total_acertos = 0
    /\ saida = <<>>
    /\ regras = RegrasPadrao
    /\ tabelaArq \in Tabelas
    /\ \E perfil \in [Participantes -> PerfisPalpites] :
          palpitesArq = [p \in Participantes |-> Registro(p, perfil[p])]
    /\ backups = <<>>
    /\ relatorios = <<>>
    /\ relogio = 0
    /\ exec = ExecInicial
    /\ ingest = IngestInicial
    /\ texto = <<>>
    /\ analise = <<>>

IniciarTeste == \E r \in RodadasPedidas : Iniciar("teste", r, 1)

NextRodada ==
    \/ IniciarTeste
    \/ ContarAcertos
    \/ PontuarParticipante
    \/ AcumularPontuacao
    \/ OrdenarClassificacao
    \/ CalcularVariacao

SpecRodada == InitRodada /\ [][NextRodada]_vars

-----------------------------------------------------------------------------
(* SpecProc: up to MaxExecucoes runs, in either mode, with the refusals and *)
(* the I/O errors the code catches                                          *)

\* round 1 in every combination of finalized and mandatory, round 2 played
TabelasProc ==
    { Tabela(f, o) : f \in { g \in [1..3 -> BOOLEAN] : g[3] },
                     o \in { g \in [1..3 -> BOOLEAN] : g[3] } }

PerfilDe(p) ==
    CASE p = 1 -> PerfilExato
      [] p = 2 -> PerfilInvertido
      [] OTHER -> <<>>

InitProc ==
    /\ palpite = [palpite_mandante |-> 0, palpite_visitante |-> 0]
    /\ resultado = [gols_mandante |-> 0, gols_visitante |-> 0]
    /\ total_acertos = 0
    /\ saida = <<>>
    /\ regras = RegrasPadrao
    /\ tabelaArq \in TabelasProc
    /\ palpitesArq = [p \in Participantes |-> Registro(p, PerfilDe(p))]
    /\ backups = <<>>
    /\ relatorios = <<>>
    /\ relogio = 0
    /\ exec = ExecInicial
    /\ ingest = IngestInicial
    /\ texto = <<>>
    /\ analise = <<>>

IniciarExecucao ==
    \E modo \in {"teste", "final"}, r \in RodadasPedidas : Iniciar(modo, r, MaxExecucoes)

NextProc ==
    \/ IniciarExecucao
    \/ Confirmar
    \/ CriarBackup
    \/ ContarAcertos
    \/ PontuarParticipante
    \/ AcumularPontuacao
    \/ OrdenarClassificacao
    \/ CalcularVariacao
    \/ AtualizarRodadaAtual
    \/ SalvarRelatorio

SpecProc == InitProc /\ [][NextProc]_vars

-----------------------------------------------------------------------------
(* importar_palpites.py: storing a validated submission *)

MaxIngestoes == 2

\* an extra bet as validar_palpites_contra_tabela returns it
ApostaExtra(identificador, pal) ==
    [id |-> pal.id, mandante |-> pal.mandante, visitante |-> pal.visitante,
     palpite_mandante |-> pal.palpite_mandante,
     palpite_visitante |-> pal.palpite_visitante,
     tipo |-> "extra", identificador |-> identificador]

\* the stored predictions and extra bets are kept and the new ones appended
atualizar_palpites_sem_filtro(dados_participante, rodada, palpites_validados, apostas_extras, agora) ==
    LET lista == dados_participante.palpites
        Eh(e) == e.rodada = rodada
        k == PrimeiroIndice(lista, Eh, 1)
        entrada == IF k = 0 THEN EntradaRodada(rodada, agora, <<>>)
                   ELSE [lista[k] EXCEPT !.data_palpite = agora]
        jogos == entrada.jogos \o palpites_validados
        guardadas == IF entrada.apostas_extras = <<>> THEN <<>>
                     ELSE entrada.apostas_extras[1]
        extras == IF apostas_extras = <<>> THEN entrada.apostas_extras
                  ELSE << guardadas \o apostas_extras >>
        nova == [entrada EXCEPT !.jogos = jogos, !.apostas_extras = extras]
    IN  [dados_participante EXCEPT
            !.palpites = IF k = 0 THEN Append(lista, nova)
                         ELSE [lista EXCEPT ![k] = nova]]

\* the round entry is overwritten: its games become the submitted ones
atualizar_palpites_sobrescreve_rodada(dados_participante, rodada, palpites_validados, apostas_extras, agora) ==
    LET lista == dados_participante.palpites
        Eh(e) == e.rodada = rodada
        k == PrimeiroIndice(lista, Eh, 1)
        nova == [EntradaRodada(rodada, agora, palpites_validados)
                    EXCEPT !.apostas_extras =
                        IF apostas_extras = <<>> THEN <<>> ELSE <<apostas_extras>>]
    IN  [dados_participante EXCEPT
            !.palpites = IF k = 0 THEN Append(lista, nova)
                         ELSE [lista EXCEPT ![k] = nova]]

\* agora is datetime.now() of the call
atualizar_palpites_participante(dados_participante, rodada, palpites_validados, apostas_extras, agora) ==
    LET lista == dados_participante.palpites
        Eh(e) == e.rodada = rodada
        k == PrimeiroIndice(lista, Eh, 1)
        entrada == IF k = 0 THEN EntradaRodada(rodada, agora, <<>>)
                   ELSE [lista[k] EXCEPT !.data_palpite = agora]
        ids_novos_palpites ==
            { palpites_validados[i].id : i \in 1..Len(palpites_validados) }
        jogos == SelectSeq(entrada.jogos, LAMBDA j : j.id \notin ids_novos_palpites)
                    \o palpites_validados
        identificadores_novos ==
            { apostas_extras[i].identificador : i \in 1..Len(apostas_extras) }
        guardadas == IF entrada.apostas_extras = <<>> THEN <<>>
                     ELSE entrada.apostas_extras[1]
        extras == IF apostas_extras = <<>> THEN entrada.apostas_extras
                  ELSE << SelectSeq(guardadas,
                             LAMBDA ae : ae.identificador \notin identificadores_novos)
                          \o apostas_extras >>
        nova == [entrada EXCEPT !.jogos = jogos, !.apostas_extras = extras]
    IN  [dados_participante EXCEPT
            !.palpites = IF k = 0 THEN Append(lista, nova)
                         ELSE [lista EXCEPT ![k] = nova]]

\* what a participant has stored before the imports: predictions of both
\* rounds; participant 2 also an extra bet in round 1
PerfilComExtra ==
    << [EntradaRodada(1, 0, <<P1(1, 2), P2(0, 0)>>)
           EXCEPT !.apostas_extras = << <<ApostaExtra("Jogo 2", P2(3, 3))>> >>],
       EntradaRodada(2, 0, <<P3(0, 2)>>) >>

PerfilIngest(p) ==
    IF p = 1 THEN PerfilExato ELSE IF p = 2 THEN PerfilComExtra ELSE <<>>

\* validated submissions of a round: <<predictions, extra bets>>, never both
\* empty (main returns before the update then)
SubmissoesDaRodada(rodada) ==
    IF rodada = 1
    THEN { << <<P2(2, 2), P1(1, 0)>>, <<>> >>,
           << <<P1(0, 0)>>, <<ApostaExtra("Jogo 1", P1(1, 1))>> >>,
           << <<P1(3, 1), P1(2, 1)>>, <<>> >>,
           << <<>>, <<ApostaExtra("Jogo 2", P2(0, 1)), ApostaExtra("Jogo 1", P1(2, 2))>> >> }
    ELSE { << <<P3(1, 1)>>, <<>> >>,
           << <<P3(0, 1)>>, <<ApostaExtra("Jogo 3", P3(2, 0))>> >> }

RodadasImportadas == 1..2

InitIngest ==
    /\ palpite = [palpite_mandante |-> 0, palpite_visitante |-> 0]
    /\ resultado = [gols_mandante |-> 0, gols_visitante |-> 0]
    /\ total_acertos = 0
    /\ saida = <<>>
    /\ regras = RegrasPadrao
    /\ tabelaArq = Tabela([i \in 1..3 |-> FALSE], [i \in 1..3 |-> TRUE])
    /\ palpitesArq = [p \in Participantes |-> Registro(p, PerfilIngest(p))]
    /\ backups = <<>>
    /\ relatorios = <<>>
    /\ relogio = 0
    /\ exec = ExecInicial
    /\ ingest = IngestInicial
    /\ texto = <<>>
    /\ analise = <<>>

\* main, one submission: load palpites.json, update the round entry, save
ImportarPalpites ==
    /\ ingest.n < MaxIngestoes
    /\ \E p \in Participantes, rodada \in RodadasImportadas :
       \E sub \in SubmissoesDaRodada(rodada) :
       \E agora \in {relogio, IF relogio < MaxRelogio THEN relogio + 1 ELSE relogio} :
         LET esta == [participante |-> p, rodada |-> rodada,
                      palpites |-> sub[1], extras |-> sub[2]]
         IN  /\ palpitesArq' =
                   [palpitesArq EXCEPT ![p] =
                       atualizar_palpites_participante(palpitesArq[p], rodada,
                                                       sub[1], sub[2], agora)]
             /\ relogio' = agora
             /\ ingest' = [n |-> ingest.n + 1, ultimo |-> <<esta>>,
                           repetiu |-> ingest.ultimo = <<esta>>]
    /\ UNCHANGED <<varsPontuacao, regras, tabelaArq, backups, relatorios, exec, varsAnalise>>

NextIngest == ImportarPalpites

SpecIngest == InitIngest /\ [][NextIngest]_vars

-----------------------------------------------------------------------------
(* Claims about calcular_pontuacao, checked under SpecPontuacao *)

\* the rules in the order the claims give them
OrdemRegras ==
    << "resultado_inverso", "resultado_exato", "vitoria_gols_um_time",
       "vitoria_diferenca_gols", "vitoria_soma_gols", "apenas_vitoria",
       "apenas_empate", "gols_um_time", "soma_gols" >>

RegraCasa(nome, p, r) ==
    CASE nome = "resultado_inverso"      -> verificar_resultado_inverso(p, r)
      [] nome = "resultado_exato"        -> verificar_resultado_exato(p, r)
      [] nome = "vitoria_gols_um_time"   -> verificar_vitoria_gols_um_time(p, r)
      [] nome = "vitoria_diferenca_gols" -> verificar_vitoria_diferenca_gols(p, r)
      [] nome = "vitoria_soma_gols"      -> verificar_vitoria_soma_gols(p, r)
      [] nome = "apenas_vitoria"         -> verificar_apenas_vitoria(p, r)
      [] nome = "apenas_empate"          -> verificar_apenas_empate(p, r)
      [] nome = "gols_um_time"           -> verificar_gols_um_time(p, r)
      [] nome = "soma_gols"              -> verificar_soma_gols(p, r)

\* the defaults of the specification: code and points of each rule
CodigoPadrao ==
    [ resultado_inverso |-> "RI", resultado_exato |-> "AR",
      vitoria_gols_um_time |-> "VG", vitoria_diferenca_gols |-> "VD",
      vitoria_soma_gols |-> "VS", apenas_vitoria |-> "AV", apenas_empate |-> "AE",
      gols_um_time |-> "AG", soma_gols |-> "AS" ]

PontosPadrao ==
    [ resultado_inverso |-> -3, resultado_exato |-> 12,
      vitoria_gols_um_time |-> 7, vitoria_diferenca_gols |-> 6,
      vitoria_soma_gols |-> 6, apenas_vitoria |-> 5, apenas_empate |-> 5,
      gols_um_time |-> 2, soma_gols |-> 1 ]

\* what the rule alone is worth under a configuration, in model units
ValorDaRegra(nome, rg, n) ==
    LET campo == IF nome = "resultado_exato" THEN "pontos_base" ELSE "pontos"
        base == IF nome \in DOMAIN rg /\ campo \in DOMAIN rg[nome]
                THEN rg[nome][campo] ELSE PontosPadrao[nome]
    IN  Escala * base
        + (IF nome = "resultado_exato" /\ n > 0 THEN Escala \div n ELSE 0)

CodigoDaRegra(nome, rg) ==
    IF nome \in DOMAIN rg /\ "codigo" \in DOMAIN rg[nome]
    THEN rg[nome].codigo ELSE CodigoPadrao[nome]

\* positions, in OrdemRegras, of the rules whose predicate is true
RegrasQueCasam == { i \in 1..Len(OrdemRegras) : RegraCasa(OrdemRegras[i], palpite, resultado) }

NomesQueCasam == { OrdemRegras[i] : i \in RegrasQueCasam }

PrimeiraRegra == OrdemRegras[CHOOSE i \in RegrasQueCasam : \A j \in RegrasQueCasam : i <= j]

\* C1: calcular_pontuacao returns the points and the code of the first rule,
\* in the order RI, AR, VG, VD, VS, AV, AE, AG, AS, whose predicate is true,
\* and (0, NP) when none is: the points of exactly one rule, never a sum.
C1_PrimeiraRegraVence ==
    saida # <<>> =>
        IF RegrasQueCasam = {}
        THEN saida[1] = [pontos |-> 0, codigo |-> "NP"]
        ELSE /\ saida[1].codigo = CodigoDaRegra(PrimeiraRegra, regras)
             /\ saida[1].pontos = ValorDaRegra(PrimeiraRegra, regras, total_acertos)

\* a scored pair that two rules match (VG and AV): the earlier one is returned
C1_Witness ==
    /\ saida # <<>>
    /\ {"vitoria_gols_um_time", "apenas_vitoria"} \subseteq NomesQueCasam
    /\ saida[1].codigo = "VG"
    /\ saida[1].pontos = 7 * Escala

SobreposicoesDasRegras ==
    { {"resultado_exato", "apenas_empate"},
      {"resultado_exato", "vitoria_diferenca_gols", "vitoria_soma_gols", "apenas_vitoria"},
      {"vitoria_gols_um_time", "apenas_vitoria"},
      {"vitoria_diferenca_gols", "apenas_vitoria"},
      {"vitoria_soma_gols", "apenas_vitoria"},
      {"resultado_inverso", "soma_gols"} }

EhInvertido ==
    /\ palpite.palpite_mandante = resultado.gols_visitante
    /\ palpite.palpite_visitante = resultado.gols_mandante
    /\ resultado.gols_mandante # resultado.gols_visitante

EhIgual ==
    /\ palpite.palpite_mandante = resultado.gols_mandante
    /\ palpite.palpite_visitante = resultado.gols_visitante

PenalidadeInverso ==
    IF "resultado_inverso" \in DOMAIN regras THEN regras.resultado_inverso.pontos ELSE -3

\* C4: a prediction that is the official score with the sides swapped, the
\* result not being a draw, scores exactly the configured penalty (default
\* -3) with code RI; a prediction equal to the result never gets RI.
C4_PenalidadeInverso ==
    saida # <<>> =>
        /\ EhInvertido => saida[1] = [pontos |-> Escala * PenalidadeInverso, codigo |-> "RI"]
        /\ EhIgual => saida[1].codigo # "RI"

\* 2x1 against 1x2 was scored under the default rules
C4_Witness ==
    /\ saida # <<>>
    /\ palpite = [palpite_mandante |-> 2, palpite_visitante |-> 1]
    /\ resultado = [gols_mandante |-> 1, gols_visitante |-> 2]
    /\ regras = RegrasPadrao
    /\ saida[1] = [pontos |-> -3 * Escala, codigo |-> "RI"]

-----------------------------------------------------------------------------
(* Claims about the scoring of a round, checked under SpecRodada *)

\* the participant has a stored prediction for the game in the round
TemPalpite(p, numero_rodada, id) ==
    id \in DOMAIN obter_palpites_participante_rodada(palpitesArq[p], numero_rodada)

PalpiteGuardado(p, numero_rodada, id) ==
    obter_palpites_participante_rodada(palpitesArq[p], numero_rodada)[id]

\* the participants whose stored prediction equals the official score
Acertadores(numero_rodada, jogo) ==
    { p \in Participantes :
        /\ TemPalpite(p, numero_rodada, jogo.id)
        /\ PalpiteGuardado(p, numero_rodada, jogo.id).palpite_mandante = jogo.gols_mandante
        /\ PalpiteGuardado(p, numero_rodada, jogo.id).palpite_visitante = jogo.gols_visitante }

JogoPorId(id) ==
    JogosDaExecucao[CHOOSE i \in 1..Len(JogosDaExecucao) : JogosDaExecucao[i].id = id]

\* C3: the exact-hit count N of each finalized game is the number of
\* participants whose stored prediction equals the official score; it is
\* computed before any participant is scored; every result entry with code AR
\* is worth basePoints + 1/N, and N >= 1 there.
C3_BonusProporcional ==
    /\ exec.resultados # <<>> => exec.contado
    /\ exec.contado =>
         \A i \in 1..Len(JogosDaExecucao) :
            LET jogo == JogosDaExecucao[i]
            IN  jogo.status = "finalizado" =>
                   /\ jogo.id \in DOMAIN exec.acertos
                   /\ exec.acertos[jogo.id] = Cardinality(Acertadores(exec.rodada, jogo))
    /\ \A k \in 1..Len(exec.resultados) :
         \A e \in 1..Len(exec.resultados[k].jogos) :
            LET ent == exec.resultados[k].jogos[e]
                n == Cardinality(Acertadores(exec.rodada, JogoPorId(ent.id)))
            IN  ent.codigo_regra = "AR" =>
                   /\ n >= 1
                   /\ n * (ent.pontos - 12 * Escala) = Escala

\* a round was scored in which two participants share the bonus of one game
\* (12.5 each) and one participant alone hit another game (13)
C3_Witness ==
    /\ exec.classificado
    /\ \E k \in 1..Len(exec.resultados) :
         \E a, b \in 1..Len(exec.resultados[k].jogos) :
            /\ exec.resultados[k].jogos[a].codigo_regra = "AR"
            /\ 2 * exec.resultados[k].jogos[a].pontos = 25 * Escala
            /\ exec.resultados[k].jogos[b].codigo_regra = "AR"
            /\ exec.resultados[k].jogos[b].pontos = 13 * Escala

\* entries of a result for one game, with the code of the missing prediction
EntradasPA(res, id) ==
    { e \in 1..Len(res.jogos) : res.jogos[e].id = id /\ res.jogos[e].codigo_regra = "PA" }

\* C5: in a participant's result, each finalized mandatory game of the round
\* without a stored prediction gives exactly one entry of -1 point with code
\* PA; a game with a prediction, not mandatory or not finalized gives none;
\* and jogos_participados counts only the games with a prediction.
C5_PalpiteAusente ==
    \A k \in 1..Len(exec.resultados) :
       LET res == exec.resultados[k]
           p == res.participante
       IN  /\ \A i \in 1..Len(JogosDaExecucao) :
                LET jogo == JogosDaExecucao[i]
                    falta == /\ jogo.status = "finalizado"
                             /\ jogo.obrigatorio
                             /\ ~ TemPalpite(p, exec.rodada, jogo.id)
                IN  /\ Cardinality(EntradasPA(res, jogo.id)) = IF falta THEN 1 ELSE 0
                    /\ \A e \in EntradasPA(res, jogo.id) : res.jogos[e].pontos = -1 * Escala
           /\ res.jogos_participados =
                Cardinality({ i \in 1..Len(JogosDaExecucao) :
                                /\ JogosDaExecucao[i].status = "finalizado"
                                /\ TemPalpite(p, exec.rodada, JogosDaExecucao[i].id) })

\* round 1 was scored with one participant holding one prediction and one PA,
\* and another whose only entry is the PA: the game they did not predict
\* either is finalized but not mandatory
C5_Witness ==
    /\ exec.classificado
    /\ exec.rodada = 1
    /\ \E k \in 1..Len(exec.resultados) :
         /\ Len(exec.resultados[k].jogos) = 2
         /\ Cardinality(EntradasPA(exec.resultados[k], "jogo-002")) = 1
         /\ exec.resultados[k].jogos_participados = 1
    /\ JogoPorId("jogo-001").status = "finalizado"
    /\ ~ JogoPorId("jogo-001").obrigatorio
    /\ \E k \in 1..Len(exec.resultados) :
         /\ Len(exec.resultados[k].jogos) = 1
         /\ Cardinality(EntradasPA(exec.resultados[k], "jogo-002")) = 1
         /\ exec.resultados[k].jogos_participados = 0

-----------------------------------------------------------------------------
(* Claims about the two processing modes, checked under SpecProc *)

PalpitesDoInicio == [p \in Participantes |-> Registro(p, PerfilDe(p))]

\* no file differs from what it was when the current run started
ArquivosIntactos ==
    /\ tabelaArq = exec.inicio.tabela
    /\ backups = exec.inicio.backups
    /\ relatorios = exec.inicio.relatorios
    /\ palpitesArq = PalpitesDoInicio
    /\ regras = RegrasPadrao

\* C6: a run in preview (test) mode writes nothing, whether it succeeds or
\* fails: schedule, rules and prediction files are unchanged, no backup is
\* created and no report is saved.
C6_ModoTesteNaoEscreve ==
    (exec.nexec > 0 /\ exec.modo = "teste") => ArquivosIntactos

\* a preview run succeeded after a final run had written a backup and a report
C6_Witness ==
    /\ exec.modo = "teste"
    /\ exec.pc = "fim"
    /\ exec.retorno = "sucesso"
    /\ exec.classificado
    /\ backups # <<>>
    /\ relatorios # <<>>

\* the mandatory games of the round of the run that are not finalized
PendentesDaRodada ==
    { i \in 1..Len(JogosDaExecucao) :
        JogosDaExecucao[i].obrigatorio /\ JogosDaExecucao[i].status # "finalizado" }

\* C7: a run on a round with a mandatory game that is not finalized returns
\* failure, lists every such game, writes nothing and computes no standings.
C7_RodadaIncompletaRejeitada ==
    (exec.nexec > 0 /\ RodadaNaTabela(exec.tabela, exec.rodada) /\ PendentesDaRodada # {}) =>
        /\ exec.pc = "fim"
        /\ exec.retorno = "falha"
        /\ Len(exec.pendentes) = Cardinality(PendentesDaRodada)
        /\ { exec.pendentes[i] : i \in 1..Len(exec.pendentes) }
              = { JogosDaExecucao[i].id : i \in PendentesDaRodada }
        /\ ~ exec.contado
        /\ exec.resultados = <<>>
        /\ ArquivosIntactos

\* a final run on a round with two pending mandatory games was rejected
C7_Witness ==
    /\ exec.modo = "final"
    /\ exec.rodada = 1
    /\ exec.pc = "fim"
    /\ exec.retorno = "falha"
    /\ exec.pendentes = <<"jogo-001", "jogo-002">>

\* C8: in final mode there is no partial commit: a run that fails at any
\* step ends with neither the schedule pointer updated nor the report written.
C8_SemCommitParcial ==
    (exec.modo = "final" /\ exec.pc = "fim" /\ exec.retorno = "falha") =>
        /\ tabelaArq = exec.inicio.tabela
        /\ relatorios = exec.inicio.relatorios

\* C9: in final mode the schedule file is modified only after a backup,
\* identical to the schedule file as it was when the run started, has been
\* written by the same run.
C9_BackupAntesDeModificar ==
    [][ tabelaArq' # tabelaArq =>
          /\ exec.nome_backup # <<>>
          /\ exec.nome_backup[1] \in DOMAIN backups
          /\ backups[exec.nome_backup[1]] = exec.inicio.tabela
          /\ backups[exec.nome_backup[1]] = tabelaArq ]_vars

\* the second final run of a behaviour has modified the schedule file, and
\* the backup it wrote holds the pointer the first run had set
C9_Witness ==
    /\ exec.modo = "final"
    /\ exec.nexec = 2
    /\ tabelaArq # exec.inicio.tabela
    /\ exec.inicio.tabela.rodada_atual # 0
    /\ exec.nome_backup # <<>>
    /\ backups[exec.nome_backup[1]] = exec.inicio.tabela

-----------------------------------------------------------------------------
(* Claims about the ingestion of predictions, checked under SpecIngest *)

\* the "palpites" list of a participant with the submission timestamps erased
SemData(dados) ==
    [i \in 1..Len(dados.palpites) |-> [dados.palpites[i] EXCEPT !.data_palpite = 0]]

\* the stored predictions of a round (first entry of that round)
JogosGuardados(dados, rodada) ==
    LET Eh(e) == e.rodada = rodada
        k == PrimeiroIndice(dados.palpites, Eh, 1)
    IN  IF k = 0 THEN <<>> ELSE dados.palpites[k].jogos

\* C10: importing again the submission that was just imported (same
\* participant, round, validated predictions and extra bets) leaves the
\* participant's stored entries as they were, the timestamp aside: nothing
\* is duplicated; and any import leaves the stored predictions of the round
\* for games outside the submission as they were, in their order.
C10_ReingestaoIdempotente ==
    [][ ingest'.n = ingest.n + 1 =>
          LET u == ingest'.ultimo[1]
              p == u.participante
              ids == { u.palpites[i].id : i \in 1..Len(u.palpites) }
              Outro(j) == j.id \notin ids
          IN  /\ SelectSeq(JogosGuardados(palpitesArq'[p], u.rodada), Outro)
                    = SelectSeq(JogosGuardados(palpitesArq[p], u.rodada), Outro)
              /\ \A q \in Participantes \ {p} : palpitesArq'[q] = palpitesArq[q]
              /\ ingest'.repetiu => SemData(palpitesArq'[p]) = SemData(palpitesArq[p])
      ]_vars

\* the same submission with predictions and an extra bet was imported twice
\* in a row for a participant who kept a prediction for another game
C10_Witness ==
    /\ ingest.repetiu
    /\ ingest.ultimo[1].palpites # <<>>
    /\ ingest.ultimo[1].extras # <<>>
    /\ relogio > 0
    /\ LET u == ingest.ultimo[1]
           js == JogosGuardados(palpitesArq[u.participante], u.rodada)
       IN  Len(js) > Len(u.palpites)

\* position of the first entry of the round in a "palpites" list, 0 if none
IndiceDaRodada(lista, rodada) ==
    LET Eh(e) == e.rodada = rodada
    IN  PrimeiroIndice(lista, Eh, 1)

ConjuntoDe(seq) == { seq[i] : i \in 1..Len(seq) }

\* C11: an import for round R changes only the entry of round R of that
\* participant: the entries of the other rounds and their number are as they
\* were; in the entry of round R the stored predictions for games outside
\* the submission are kept unchanged, a stored prediction is dropped only if
\* the submission has a prediction for the same game, and the entry holds
\* the kept predictions and the submitted ones and nothing else.
C11_SoARodadaMuda ==
    [][ ingest'.n = ingest.n + 1 =>
          LET u == ingest'.ultimo[1]
              antes == palpitesArq[u.participante].palpites
              depois == palpitesArq'[u.participante].palpites
              k == IndiceDaRodada(antes, u.rodada)
              ids == { u.palpites[i].id : i \in 1..Len(u.palpites) }
              guardados == IF k = 0 THEN {} ELSE ConjuntoDe(antes[k].jogos)
              kd == IF k = 0 THEN Len(antes) + 1 ELSE k
          IN  /\ Len(depois) = IF k = 0 THEN Len(antes) + 1 ELSE Len(antes)
              /\ \A i \in 1..Len(antes) : i # k => depois[i] = antes[i]
              /\ depois[kd].rodada = u.rodada
              /\ \A j \in guardados :
                    j.id \notin ids => j \in ConjuntoDe(depois[kd].jogos)
              /\ \A j \in guardados \ ConjuntoDe(depois[kd].jogos) :
                    \E n \in ConjuntoDe(depois[kd].jogos) :
                       n.id = j.id /\ n \in ConjuntoDe(u.palpites)
              /\ ConjuntoDe(depois[kd].jogos)
                    = { j \in guardados : j.id \notin ids } \cup ConjuntoDe(u.palpites)
      ]_vars

\* a submission for round 1 replaced one stored prediction of a participant
\* and kept the other, the participant holding round 2 as well
C11_Witness ==
    /\ ingest.n > 0
    /\ ingest.ultimo[1].rodada = 1
    /\ ingest.ultimo[1].palpites = <<P1(0, 0)>>
    /\ LET d == palpitesArq[ingest.ultimo[1].participante].palpites
       IN  /\ Len(d) = 2
           /\ d[1].jogos = <<P2(1, 1), P1(0, 0)>>
           /\ d[2] = EntradaRodada(2, 0, <<P3(0, 1)>>)

-----------------------------------------------------------------------------
(* Claims about the standings of a round, checked under SpecRodada *)

\* the results of the run have been sorted
Ordenado == exec.pc \in {"variacao", "atualizar", "salvar"} \/ exec.classificado

\* place of a participant in the enumeration of the participant directories
LugarNaEnumeracao(nome) == CHOOSE i \in 1..Len(exec.todos) : exec.todos[i] = nome

\* C12: the ranking of a round is in non-increasing order of cumulative
\* total, and participants with equal cumulative totals are in the order in
\* which their records were enumerated.
C12_OrdemDaClassificacao ==
    Ordenado =>
        \A i, j \in 1..Len(exec.resultados) :
            i < j =>
               /\ exec.resultados[i].total_acumulado >= exec.resultados[j].total_acumulado
               /\ exec.resultados[i].total_acumulado = exec.resultados[j].total_acumulado
                     => LugarNaEnumeracao(exec.resultados[i].participante)
                           < LugarNaEnumeracao(exec.resultados[j].participante)

\* two participants tied on a total other than 0 were ranked, the directory
\* having listed participant 2 first
C12_Witness ==
    /\ exec.classificado
    /\ exec.todos[1] = 2
    /\ Len(exec.resultados) >= 2
    /\ exec.resultados[1].participante = 2
    /\ exec.resultados[1].total_acumulado = exec.resultados[2].total_acumulado
    /\ exec.resultados[1].total_acumulado > 0

\* C13: the ranking of a round has exactly one entry for every participant
\* whose predictions were loaded, those without a prediction in the round
\* included, and the positions are 1..n in order: no gap, no repetition.
C13_ClassificacaoCompleta ==
    exec.classificado =>
        /\ Len(exec.resultados) = Len(exec.todos)
        /\ \A i \in 1..Len(exec.todos) :
              Cardinality({ k \in 1..Len(exec.resultados) :
                              exec.resultados[k].participante = exec.todos[i] }) = 1
        /\ \A k \in 1..Len(exec.resultados) : exec.resultados[k].posicao = k

\* a round was ranked in which one participant has no stored prediction at
\* all and the other has predictions; both are listed, tied or not
C13_Witness ==
    /\ exec.classificado
    /\ exec.rodada = 2
    /\ Len(exec.resultados) = NumParticipantes
    /\ \E p \in Participantes : palpitesArq[p].palpites = <<>>
    /\ \E p \in Participantes : palpitesArq[p].palpites = PerfilExato
    /\ \E k \in 1..Len(exec.resultados) : exec.resultados[k].jogos_participados = 0
    /\ \E k \in 1..Len(exec.resultados) : exec.resultados[k].jogos_participados = 1

\* the sum of the round totals of a participant over the rounds 1..ate, as
\* the stored predictions give them; a round missing from the schedule gives 0
TotalAte(p, ate) ==
    SomaRodadas(palpitesArq[p], exec.tabela, TodosPalpites, regras, ate)

\* the place of a participant when the loaded participants are ranked by
\* their totals over the rounds 1..ate, ties in the order of enumeration
PosicaoPorTotal(p, ate) ==
    1 + Cardinality({ q \in ConjuntoDe(exec.todos) :
                        \/ TotalAte(q, ate) > TotalAte(p, ate)
                        \/ /\ TotalAte(q, ate) = TotalAte(p, ate)
                           /\ LugarNaEnumeracao(q) < LugarNaEnumeracao(p) })

\* C14 as stated: the rank delta of round N is 0 when N is 1 and otherwise
\* the position in the ranking by cumulative total up to round N-1 minus the
\* current position.
C14_VariacaoSempreRecalculada ==
    exec.classificado =>
        \A k \in 1..Len(exec.resultados) :
            exec.resultados[k].variacao =
                IF exec.rodada <= 1 THEN 0
                ELSE PosicaoPorTotal(exec.resultados[k].participante, exec.rodada - 1)
                        - exec.resultados[k].posicao

\* C14 amended: the rank delta of round N is 0 for every participant when N
\* is 1 or when round N-1 is not in the schedule; otherwise it is the
\* position in the ranking by cumulative total up to round N-1 (same
\* procedure, same tie order) minus the current position.
C14_VariacaoDaPosicao ==
    exec.classificado =>
        \A k \in 1..Len(exec.resultados) :
            exec.resultados[k].variacao =
                IF exec.rodada <= 1 \/ ~ RodadaNaTabela(exec.tabela, exec.rodada - 1) THEN 0
                ELSE PosicaoPorTotal(exec.resultados[k].participante, exec.rodada - 1)
                        - exec.resultados[k].posicao

\* round 2 was ranked and the two participants swapped places: one moved up
\* one position, the other down
C14_Witness ==
    /\ exec.classificado
    /\ exec.rodada = 2
    /\ \E k \in 1..Len(exec.resultados) : exec.resultados[k].variacao = 1
    /\ \E k \in 1..Len(exec.resultados) : exec.resultados[k].variacao = -1

\* the number of loaded participants whose stored prediction of round r for
\* the game equals its final score
ExatosNaRodada(jogo, r) ==
    Cardinality({ q \in ConjuntoDe(exec.todos) :
        LET pq == obter_palpites_participante_rodada(palpitesArq[q], r)
        IN  jogo.id \in DOMAIN pq /\ PalpiteExato(pq[jogo.id], jogo) })

\* the points one game of round r is worth to participant p: the score of the
\* stored prediction with the exact hits of that same round, the penalty of
\* a prediction missing from a mandatory game, nothing for a pending game
PontosDoJogo(p, jogo, r) ==
    LET pp == obter_palpites_participante_rodada(palpitesArq[p], r)
    IN  IF jogo.status # "finalizado" THEN 0
        ELSE IF jogo.id \in DOMAIN pp
        THEN calcular_pontuacao(pp[jogo.id], jogo, regras, ExatosNaRodada(jogo, r)).pontos
        ELSE IF jogo.obrigatorio THEN calcular_pontuacao_palpite_ausente.pontos
        ELSE 0

\* the round total of participant p in round r, 0 for a round that the
\* schedule does not have
TotalProprioDaRodada(p, r) ==
    IF ~ RodadaNaTabela(exec.tabela, r) THEN 0
    ELSE LET jogos == obter_jogos_rodada(exec.tabela, r)
         IN  SomaSeq([i \in 1..Len(jogos) |-> PontosDoJogo(p, jogos[i], r)])

\* the run has attached total_acumulado to its results
Acumulado == exec.pc \in {"ordenar", "variacao"} \/ exec.classificado

\* C15: the cumulative total reported for round N is the sum, over the rounds
\* 1..N, of the participant's own round totals, each computed with the exact
\* hits of that round; a round missing from the schedule contributes 0.
C15_TotalAcumulado ==
    Acumulado =>
        \A k \in 1..Len(exec.resultados) :
            exec.resultados[k].total_acumulado =
                SomaSeq([r \in 1..exec.rodada |->
                            TotalProprioDaRodada(exec.resultados[k].participante, r)])

\* round 3 of a schedule without round 2 was accumulated: a participant
\* carries points of round 1 into it, and both participants hit the same
\* game of round 1 exactly, so that its bonus was shared
C15_Witness ==
    /\ Acumulado
    /\ exec.rodada = 3
    /\ ~ RodadaNaTabela(exec.tabela, 2)
    /\ \E k \in 1..Len(exec.resultados) :
          /\ exec.resultados[k].total_acumulado # exec.resultados[k].total_rodada
          /\ TotalProprioDaRodada(exec.resultados[k].participante, 1) # 0
    /\ \E i \in 1..Len(obter_jogos_rodada(exec.tabela, 1)) :
          ExatosNaRodada(obter_jogos_rodada(exec.tabela, 1)[i], 1) = 2

-----------------------------------------------------------------------------
(* Claims about the round total, checked under SpecRodada *)

\* the points of one game of round r for participant p when only the
\* finalized mandatory games count
PontosSoObrigatorio(p, jogo, r) ==
    IF jogo.obrigatorio THEN PontosDoJogo(p, jogo, r) ELSE 0

\* the games of the round being processed
JogosDaRodadaAtual == obter_jogos_rodada(exec.tabela, exec.rodada)

\* C16 as stated: the round total is the sum of the scores of the
\* predictions for the finalized mandatory games plus the penalty of each
\* finalized mandatory game without a prediction; a game that is not
\* finalized or not mandatory contributes nothing.
C16_SoJogosObrigatorios ==
    \A k \in 1..Len(exec.resultados) :
        exec.resultados[k].total_rodada =
            SomaSeq([i \in 1..Len(JogosDaRodadaAtual) |->
                        PontosSoObrigatorio(exec.resultados[k].participante,
                                            JogosDaRodadaAtual[i], exec.rodada)])

\* C16 amended: the round total is the sum of the scores of the predictions
\* for the finalized games, mandatory or not, plus the penalty of each
\* finalized mandatory game without a prediction; a game that is not
\* finalized, and a game that is not mandatory and has no prediction,
\* contributes nothing.
C16_TotalDaRodada ==
    \A k \in 1..Len(exec.resultados) :
        /\ exec.resultados[k].total_rodada =
              SomaSeq([i \in 1..Len(JogosDaRodadaAtual) |->
                          PontosDoJogo(exec.resultados[k].participante,
                                       JogosDaRodadaAtual[i], exec.rodada)])
        /\ \A i \in 1..Len(JogosDaRodadaAtual) :
              LET jogo == JogosDaRodadaAtual[i]
                  pp == obter_palpites_participante_rodada(
                            palpitesArq[exec.resultados[k].participante], exec.rodada)
              IN  (jogo.status # "finalizado"
                     \/ (~ jogo.obrigatorio /\ jogo.id \notin DOMAIN pp))
                  => \A e \in 1..Len(exec.resultados[k].jogos) :
                        exec.resultados[k].jogos[e].id # jogo.id

\* a participant was scored in a round that has a finalized game which is
\* not mandatory and for which the participant's prediction earned points,
\* next to a finalized mandatory game that the participant did not predict
C16_Witness ==
    \E k \in 1..Len(exec.resultados) :
        LET p == exec.resultados[k].participante
            pp == obter_palpites_participante_rodada(palpitesArq[p], exec.rodada)
        IN  /\ \E i \in 1..Len(JogosDaRodadaAtual) :
                  /\ JogosDaRodadaAtual[i].status = "finalizado"
                  /\ ~ JogosDaRodadaAtual[i].obrigatorio
                  /\ JogosDaRodadaAtual[i].id \in DOMAIN pp
                  /\ PontosDoJogo(p, JogosDaRodadaAtual[i], exec.rodada) > 0
            /\ \E i \in 1..Len(JogosDaRodadaAtual) :
                  /\ JogosDaRodadaAtual[i].status = "finalizado"
                  /\ JogosDaRodadaAtual[i].obrigatorio
                  /\ JogosDaRodadaAtual[i].id \notin DOMAIN pp

-----------------------------------------------------------------------------
(* SpecRegras: the loop body of calcular_pontuacao_participante on one       *)
(* finalized mandatory game, with and without a prediction, under            *)
(* configurations that also set the penalty of the missing prediction       *)

\* REGRAS_PONTUACAO_PADRAO with another value and code for palpite_ausente
RegrasComAusente ==
    [RegrasPadrao EXCEPT !.palpite_ausente = [pontos |-> -2, codigo |-> "AU"]]

ConfRegrasAusente == ConfRegras \cup {RegrasComAusente}

InitRegras ==
    /\ palpite \in [palpite_mandante : Gols, palpite_visitante : Gols]
    /\ resultado \in [gols_mandante : Gols, gols_visitante : Gols]
    /\ total_acertos \in 1..NumParticipantes
    /\ regras \in ConfRegrasAusente
    /\ saida = <<>>
    /\ tabelaArq = TabelaVazia
    /\ palpitesArq = <<>>
    /\ backups = <<>>
    /\ relatorios = <<>>
    /\ relogio = 0
    /\ exec = ExecInicial
    /\ ingest = IngestInicial
    /\ texto = <<>>
    /\ analise = <<>>

\* the game of the iteration: finalized, mandatory, with the final score
JogoDaIteracao ==
    Jogo("jogo-001", "Flamengo", "Palmeiras", resultado.gols_mandante,
         resultado.gols_visitante, "finalizado", TRUE)

\* the participant has a prediction for the game ("if id_jogo in palpites_rodada")
PontuarComPalpite ==
    /\ saida = <<>>
    /\ saida' = PontuarJogo(JogoDaIteracao,
                            [id \in {"jogo-001"} |-> palpite], regras,
                            [id \in {"jogo-001"} |-> total_acertos])
    /\ UNCHANGED <<palpite, resultado, total_acertos, regras, varsArquivos, exec, ingest, varsAnalise>>

\* the participant has none ("elif jogo.get('obrigatorio', False)")
PontuarSemPalpite ==
    /\ saida = <<>>
    /\ saida' = PontuarJogo(JogoDaIteracao, <<>>, regras,
                            [id \in {"jogo-001"} |-> total_acertos])
    /\ UNCHANGED <<palpite, resultado, total_acertos, regras, varsArquivos, exec, ingest, varsAnalise>>

NextRegras ==
    \/ PontuarComPalpite
    \/ PontuarSemPalpite

SpecRegras == InitRegras /\ [][NextRegras]_vars

-----------------------------------------------------------------------------
(* Claims about the rule configuration, checked under SpecRegras *)

\* points and code of the missing prediction as the configuration gives
\* them, the defaults -1 and PA otherwise
AusenteConfigurado ==
    [pontos |-> Escala * RegraCampo(regras, "palpite_ausente", "pontos", -1),
     codigo |-> RegraCampo(regras, "palpite_ausente", "codigo", "PA")]

\* C17: every point value and rule code used in scoring comes from the rule
\* configuration when it defines it and from the defaults otherwise, the
\* penalty of the missing prediction (palpite_ausente) included; which rule
\* is applied does not depend on the configured values.
C17_TudoConfiguravel ==
    saida # <<>> =>
        IF ~ saida[1].participou
        THEN /\ saida[1].pontos = AusenteConfigurado.pontos
             /\ saida[1].codigo_regra = AusenteConfigurado.codigo
        ELSE IF RegrasQueCasam = {}
        THEN saida[1].pontos = 0 /\ saida[1].codigo_regra = "NP"
        ELSE /\ saida[1].codigo_regra = CodigoDaRegra(PrimeiraRegra, regras)
             /\ saida[1].pontos = ValorDaRegra(PrimeiraRegra, regras, total_acertos)

\* the part of C17 that the code keeps: with a prediction, points and code
\* are those of the configuration or the defaults, for the first rule that
\* matches in the fixed order
C17_RegrasDoPalpite ==
    (saida # <<>> /\ saida[1].participou) =>
        IF RegrasQueCasam = {}
        THEN saida[1].pontos = 0 /\ saida[1].codigo_regra = "NP"
        ELSE /\ saida[1].codigo_regra = CodigoDaRegra(PrimeiraRegra, regras)
             /\ saida[1].pontos = ValorDaRegra(PrimeiraRegra, regras, total_acertos)

\* a missing prediction was scored under a configuration that sets the
\* penalty to -2 with code AU
C17_Witness ==
    /\ saida # <<>>
    /\ ~ saida[1].participou
    /\ regras = RegrasComAusente
    /\ saida[1].pontos = -1 * Escala
    /\ saida[1].codigo_regra = "PA"

-----------------------------------------------------------------------------
(* importar_palpites.py: from the parsed text to the validated predictions *)

\* a prediction as the parser returns it: the team names as written, goal
\* counts that may be missing (<<>>), and for an extra bet its label (the
\* keys "tipo" and "identificador"; <<>> for a regular prediction)
PalpiteBruto(mandante, visitante, gm, gv, extra) ==
    [mandante |-> mandante, visitante |-> visitante,
     gols_mandante |-> gm, gols_visitante |-> gv, extra |-> extra]

\* the games of every round of the schedule
JogosDaTabela(tabela) ==
    UNION { { tabela.rodadas[r].jogos[i] : i \in 1..Len(tabela.rodadas[r].jogos) } :
              r \in 1..Len(tabela.rodadas) }

\* times_tabela: the names of the teams of every round
TimesDaTabela(tabela) ==
    UNION { { j.mandante, j.visitante } : j \in JogosDaTabela(tabela) }

\* encontrar_time_similar on the names of the model: <<the valid name>> that
\* is equal after normalisation or the nearest within edit distance 3, <<>>
\* when none is ("Flamego" is at distance 1 of "Flamengo", "Internacional"
\* at more than 3 of every team of the schedule)
encontrar_time_similar(nome, times_validos) ==
    IF nome \in times_validos THEN <<nome>>
    ELSE IF nome = "Flamego" /\ "Flamengo" \in times_validos THEN <<"Flamengo">>
    ELSE <<>>

\* one prediction with both names replaced by the similar team, when there is one
NormalizarPalpite(pal, times) ==
    LET m == encontrar_time_similar(pal.mandante, times)
        v == encontrar_time_similar(pal.visitante, times)
    IN  [pal EXCEPT !.mandante = IF m = <<>> THEN pal.mandante ELSE m[1],
                    !.visitante = IF v = <<>> THEN pal.visitante ELSE v[1]]

normalizar_palpites_times(palpites, tabela) ==
    [i \in 1..Len(palpites) |-> NormalizarPalpite(palpites[i], TimesDaTabela(tabela))]

\* position of the first game of the list with the pair (mandante, visitante), 0 if none
RECURSIVE JogoCorrespondente(_, _, _)
JogoCorrespondente(jogos_rodada, pal, i) ==
    IF i > Len(jogos_rodada) THEN 0
    ELSE IF /\ jogos_rodada[i].mandante = pal.mandante
            /\ jogos_rodada[i].visitante = pal.visitante
    THEN i
    ELSE JogoCorrespondente(jogos_rodada, pal, i + 1)

\* the error messages, by what they report
ErroSemPlacar(pal) ==
    [erro |-> "Palpite sem placar especificado", rodada |-> <<>>,
     mandante |-> pal.mandante, visitante |-> pal.visitante]

ErroJogoNaoEncontrado(pal, rodada) ==
    [erro |-> "Jogo nao encontrado na rodada", rodada |-> rodada,
     mandante |-> pal.mandante, visitante |-> pal.visitante]

ErroRodadaNaoEncontrada(rodada) ==
    [erro |-> "Rodada nao encontrada na tabela", rodada |-> rodada,
     mandante |-> "", visitante |-> ""]

\* palpite_validado: id and names of the game, goals of the prediction
PalpiteValidado(jogo, pal) ==
    LET pv == JogoPalpite(jogo.id, jogo.mandante, jogo.visitante,
                          pal.gols_mandante[1], pal.gols_visitante[1])
    IN  IF pal.extra = <<>> THEN pv ELSE ApostaExtra(pal.extra[1], pv)

\* the game is searched in every round of the schedule
ValidarPalpiteEmQualquerRodada(pal, jogos_rodada, rodada, tabela) ==
    LET todos == UNION { {tabela.rodadas[r].jogos[i] : i \in 1..Len(tabela.rodadas[r].jogos)} :
                            r \in 1..Len(tabela.rodadas) }
        achados == { j \in todos : j.mandante = pal.mandante /\ j.visitante = pal.visitante }
    IN  IF pal.gols_mandante = <<>> \/ pal.gols_visitante = <<>>
        THEN [validados |-> <<>>, erros |-> <<ErroSemPlacar(pal)>>]
        ELSE IF achados = {}
        THEN [validados |-> <<>>, erros |-> <<ErroJogoNaoEncontrado(pal, rodada)>>]
        ELSE [validados |-> <<PalpiteValidado(CHOOSE j \in achados : TRUE, pal)>>,
              erros |-> <<>>]

\* a prediction without a goal count is skipped without an error
ValidarPalpiteSemErroDePlacar(pal, jogos_rodada, rodada, tabela) ==
    LET k == JogoCorrespondente(jogos_rodada, pal, 1)
    IN  IF pal.gols_mandante = <<>> \/ pal.gols_visitante = <<>>
        THEN [validados |-> <<>>, erros |-> <<>>]
        ELSE IF k = 0
        THEN [validados |-> <<>>, erros |-> <<ErroJogoNaoEncontrado(pal, rodada)>>]
        ELSE [validados |-> <<PalpiteValidado(jogos_rodada[k], pal)>>, erros |-> <<>>]

\* the loop body of validar_palpites_contra_tabela: what one prediction adds
\* to palpites_validados and to erros
ValidarPalpite(pal, jogos_rodada, rodada, tabela) ==
    LET k == JogoCorrespondente(jogos_rodada, pal, 1)
    IN  IF pal.gols_mandante = <<>> \/ pal.gols_visitante = <<>>
        THEN [validados |-> <<>>, erros |-> <<ErroSemPlacar(pal)>>]
        ELSE IF k = 0
        THEN [validados |-> <<>>, erros |-> <<ErroJogoNaoEncontrado(pal, rodada)>>]
        ELSE [validados |-> <<PalpiteValidado(jogos_rodada[k], pal)>>, erros |-> <<>>]

RECURSIVE ValidarLista(_, _, _, _)
ValidarLista(palpites, jogos_rodada, rodada, tabela) ==
    IF palpites = <<>> THEN [validados |-> <<>>, erros |-> <<>>]
    ELSE LET um == ValidarPalpite(Head(palpites), jogos_rodada, rodada, tabela)
             resto == ValidarLista(Tail(palpites), jogos_rodada, rodada, tabela)
         IN  [validados |-> um.validados \o resto.validados,
              erros |-> um.erros \o resto.erros]

\* position of the first round of the schedule with the number, 0 if none;
\* rodada is <<n>>, or <<>> for None, which no round has
RECURSIVE RodadaEncontrada(_, _, _)
RodadaEncontrada(tabela, rodada, i) ==
    IF i > Len(tabela.rodadas) \/ rodada = <<>> THEN 0
    ELSE IF tabela.rodadas[i].numero = rodada[1] THEN i
    ELSE RodadaEncontrada(tabela, rodada, i + 1)

\* (palpites_validados, erros); the schedules of the model always hold the
\* key "rodadas"
validar_palpites_contra_tabela(palpites, rodada, tabela) ==
    LET k == RodadaEncontrada(tabela, rodada, 1)
    IN  IF k = 0
        THEN [validados |-> <<>>, erros |-> <<ErroRodadaNaoEncontrada(rodada)>>]
        ELSE ValidarLista(palpites, tabela.rodadas[k].jogos, rodada, tabela)

-----------------------------------------------------------------------------
(* SpecImportar: one run of main of importar_palpites.py, from the parsed   *)
(* text to the saved palpites.json.  The variable ingest holds the run: its *)
(* arguments, the parsed blocks, the position in main, the last calls of    *)
(* validar_palpites_contra_tabela and the exit code                         *)

MaxPalpites == 2

\* the name of the bettor as the text gives it: the directory name but for
\* case and separators, a part of it, or a name no directory resembles
NomeEscrito(de, forma) == [de |-> de, forma |-> forma]

\* <<directory>> of the participant, <<>> when the name is missing or matches
\* no directory (exact after normalisation, contained, or by common words)
identificar_participante(nome_apostador, diretorios) ==
    IF nome_apostador = <<>> THEN <<>>
    ELSE IF /\ nome_apostador[1].forma \in {"normalizado", "contido"}
            /\ nome_apostador[1].de \in diretorios
    THEN <<nome_apostador[1].de>>
    ELSE <<>>

\* resultado_parsing: what the parser extracted from one text or section
Bloco(apostador, rodada, inferida, palpites, extras) ==
    [apostador |-> apostador, rodada |-> rodada, rodada_inferida |-> inferida,
     palpites |-> palpites, apostas_extras |-> extras]

BrutoCerto == PalpiteBruto("Flamengo", "Palmeiras", <<2>>, <<1>>, <<>>)
BrutoErroDigitacao == PalpiteBruto("Flamego", "Palmeiras", <<1>>, <<0>>, <<>>)
BrutoInvertido == PalpiteBruto("Palmeiras", "Flamengo", <<1>>, <<2>>, <<>>)
BrutoOutraRodada == PalpiteBruto("Palmeiras", "Santos", <<0>>, <<1>>, <<>>)
BrutoSemPlacar == PalpiteBruto("Santos", "Gremio", <<>>, <<>>, <<>>)
BrutoDesconhecido == PalpiteBruto("Santos", "Internacional", <<1>>, <<1>>, <<>>)
BrutoSegundo == PalpiteBruto("Santos", "Gremio", <<3>>, <<3>>, <<>>)

PalpitesBrutos ==
    { BrutoCerto, BrutoErroDigitacao, BrutoInvertido, BrutoOutraRodada,
      BrutoSemPlacar, BrutoDesconhecido, BrutoSegundo }

\* the lists of at most MaxPalpites predictions
ListasDePalpites ==
    UNION { [1..n -> PalpitesBrutos] : n \in 0..MaxPalpites }

ListasDeExtras ==
    { <<>>,
      << PalpiteBruto("Santos", "Gremio", <<0>>, <<2>>, <<"Jogo 2">>) >>,
      << PalpiteBruto("Gremio", "Santos", <<1>>, <<1>>, <<"Jogo 2">>) >> }

ApostadoresEscritos ==
    { <<>>, <<NomeEscrito(1, "normalizado")>>, <<NomeEscrito(2, "contido")>>,
      <<NomeEscrito(1, "outro")>> }

\* a text with at most one round: the only block of
\* processar_texto_multiplas_rodadas, or the result of processar_texto_palpite
\* when that list is empty
TextosDeUmaRodada ==
    { <<Bloco(a, r[1], r[2], ps, es)>> :
        a \in ApostadoresEscritos,
        r \in { <<<<>>, FALSE>>, <<<<1>>, FALSE>>, <<<<1>>, TRUE>>, <<<<2>>, FALSE>> },
        ps \in ListasDePalpites, es \in ListasDeExtras }

\* the sections of a text with several round markers, one bettor for all
SecoesDaPrimeira ==
    { <<<<1>>, <<BrutoCerto, BrutoSemPlacar>>, <<>>>>,
      <<<<1>>, <<BrutoInvertido>>, <<>>>>,
      <<<<1>>, <<>>, <<PalpiteBruto("Santos", "Gremio", <<0>>, <<2>>, <<"Jogo 2">>)>>>>,
      <<<<>>, <<BrutoCerto>>, <<>>>> }

SecoesDaSegunda ==
    { <<<<2>>, <<BrutoOutraRodada>>, <<>>>>,
      <<<<2>>, <<BrutoCerto>>, <<>>>>,
      <<<<3>>, <<BrutoOutraRodada, BrutoDesconhecido>>, <<>>>> }

TextosDeVariasRodadas ==
    { << Bloco(a, s1[1], FALSE, s1[2], s1[3]), Bloco(a, s2[1], FALSE, s2[2], s2[3]) >> :
        a \in ApostadoresEscritos, s1 \in SecoesDaPrimeira, s2 \in SecoesDaSegunda }

Textos == TextosDeUmaRodada \cup TextosDeVariasRodadas

ArgsRodada == { <<>>, <<1>>, <<2>> }

ChamadaVazia == [feita |-> FALSE, palpites |-> <<>>, rodada |-> <<>>,
                 validados |-> <<>>, erros |-> <<>>]

\* one call of validar_palpites_contra_tabela: arguments and result
Chamada(palpites, rodada, tabela) ==
    LET res == validar_palpites_contra_tabela(palpites, rodada, tabela)
    IN  [feita |-> TRUE, palpites |-> palpites, rodada |-> rodada,
         validados |-> res.validados, erros |-> res.erros]

ImportacaoInicial ==
    [pc |-> "ocioso", args_rodada |-> <<>>, forcar |-> FALSE, blocos |-> <<>>,
     i |-> 0, caminho |-> <<>>, rodada |-> <<>>,
     regulares |-> ChamadaVazia, extras |-> ChamadaVazia,
     dados |-> <<>>, total |-> 0, retorno |-> <<>>, inicio |-> <<>>,
     varias |-> FALSE, mesclou |-> FALSE, causa |-> "nenhuma"]

\* the records the run finds: participant 1 has stored both rounds, the
\* others have stored nothing yet (the file criar_participantes writes)
PerfilImportar(p) == IF p = 1 THEN PerfilExato ELSE <<>>

InitImportar ==
    /\ palpite = [palpite_mandante |-> 0, palpite_visitante |-> 0]
    /\ resultado = [gols_mandante |-> 0, gols_visitante |-> 0]
    /\ total_acertos = 0
    /\ saida = <<>>
    /\ regras = RegrasPadrao
    /\ tabelaArq \in { Tabela([i \in 1..3 |-> FALSE], [i \in 1..3 |-> TRUE]),
                       TabelaNumerada([i \in 1..3 |-> FALSE], [i \in 1..3 |-> TRUE], 3) }
    /\ palpitesArq = [p \in Participantes |-> Registro(p, PerfilImportar(p))]
    /\ backups = <<>>
    /\ relatorios = <<>>
    /\ relogio = 0
    /\ exec = ExecInicial
    /\ ingest = ImportacaoInicial
    /\ texto = <<>>
    /\ analise = <<>>

\* main returns
Retornar(ing, codigo) == [ing EXCEPT !.pc = "fim", !.retorno = <<codigo>>]

\* main returns 1 because a file could not be read or written
FalharArquivo(ing) == [Retornar(ing, 1) EXCEPT !.causa = "arquivo"]

\* the run dies of an exception that main does not catch
Excecao(ing, nome) == [Retornar(ing, 1) EXCEPT !.causa = nome]

\* the arguments are read and the text is parsed; a text with several
\* sections is cut down to the round of --rodada when that is given
LerArgumentos ==
    /\ ingest.pc = "ocioso"
    /\ \E blocos \in Textos, args_rodada \in ArgsRodada, forcar \in BOOLEAN :
         LET ing == [ingest EXCEPT !.args_rodada = args_rodada, !.forcar = forcar,
                                   !.inicio = palpitesArq,
                                   !.varias = (Len(blocos) > 1)]
             filtrados == SelectSeq(blocos, LAMBDA b : b.rodada = args_rodada)
         IN  ingest' =
               IF Len(blocos) > 1
               THEN IF args_rodada = <<>>
                    THEN [ing EXCEPT !.blocos = blocos, !.pc = "secao", !.i = 1]
                    ELSE IF filtrados = <<>>
                    THEN Retornar([ing EXCEPT !.blocos = blocos], 1)
                    ELSE [ing EXCEPT !.blocos = filtrados, !.pc = "secao", !.i = 1]
               ELSE [ing EXCEPT !.blocos = blocos, !.pc = "apostador", !.i = 1]
    /\ UNCHANGED <<varsPontuacao, regras, varsArquivos, exec, varsAnalise>>

\* the text of one round: the bettor must be named and own a directory
IdentificarApostador ==
    /\ ingest.pc = "apostador"
    /\ LET caminho == identificar_participante(ingest.blocos[1].apostador, Participantes)
       IN  ingest' = IF caminho = <<>> THEN Retornar(ingest, 1)
                     ELSE [ingest EXCEPT !.caminho = caminho, !.pc = "rodada"]
    /\ UNCHANGED <<varsPontuacao, regras, varsArquivos, exec, varsAnalise>>

\* a text without a round is taken to be of round 1
DeterminarRodadaComPadrao ==
    /\ ingest.pc = "rodada"
    /\ LET rodada == IF ingest.args_rodada # <<>> THEN ingest.args_rodada
                     ELSE IF ingest.blocos[1].rodada # <<>> THEN ingest.blocos[1].rodada
                     ELSE <<1>>
           pergunta == /\ ingest.blocos[1].rodada_inferida
                       /\ ingest.args_rodada = <<>>
                       /\ ~ ingest.forcar
       IN  \E resposta \in (IF pergunta THEN BOOLEAN ELSE {TRUE}) :
               ingest' = IF resposta
                         THEN [ingest EXCEPT !.rodada = rodada, !.pc = "validar"]
                         ELSE Retornar(ingest, 1)
    /\ UNCHANGED <<varsPontuacao, regras, varsArquivos, exec, varsAnalise>>

\* --rodada, else the round of the text; an inferred round is confirmed by
\* the user unless --forcar is given
DeterminarRodada ==
    /\ ingest.pc = "rodada"
    /\ LET rodada == IF ingest.args_rodada # <<>> THEN ingest.args_rodada
                     ELSE ingest.blocos[1].rodada
           pergunta == /\ ingest.blocos[1].rodada_inferida
                       /\ ingest.args_rodada = <<>>
                       /\ ~ ingest.forcar
       IN  IF rodada = <<>> THEN ingest' = Retornar(ingest, 1)
           ELSE \E resposta \in (IF pergunta THEN BOOLEAN ELSE {TRUE}) :
                   ingest' = IF resposta
                             THEN [ingest EXCEPT !.rodada = rodada, !.pc = "validar"]
                             ELSE Retornar(ingest, 1)
    /\ UNCHANGED <<varsPontuacao, regras, varsArquivos, exec, varsAnalise>>

\* normalizar_palpites_times and validar_palpites_contra_tabela on the
\* predictions and on the extra bets; nothing to process, or nothing valid,
\* ends the run
ValidarPalpites ==
    /\ ingest.pc = "validar"
    /\ LET b == ingest.blocos[1]
           regulares == Chamada(normalizar_palpites_times(b.palpites, tabelaArq),
                                ingest.rodada, tabelaArq)
           extras == Chamada(normalizar_palpites_times(b.apostas_extras, tabelaArq),
                             ingest.rodada, tabelaArq)
       IN  ingest' =
             IF b.palpites = <<>> /\ b.apostas_extras = <<>> THEN Retornar(ingest, 1)
             ELSE IF regulares.validados = <<>> /\ extras.validados = <<>>
             THEN Retornar([ingest EXCEPT !.regulares = regulares, !.extras = extras], 1)
             ELSE [ingest EXCEPT !.regulares = regulares, !.extras = extras,
                                 !.pc = "carregar"]
    /\ UNCHANGED <<varsPontuacao, regras, varsArquivos, exec, varsAnalise>>

\* the stored predictions of the round being imported
PalpitesExistentes(dados, rodada) ==
    LET Eh(e) == e.rodada = rodada
        k == PrimeiroIndice(dados.palpites, Eh, 1)
    IN  IF k = 0 THEN <<>> ELSE dados.palpites[k].jogos

\* carregar_palpites_participante, then confirmar_sobrescrita when the round
\* already holds predictions
CarregarPalpites ==
    /\ ingest.pc = "carregar"
    /\ \/ ingest' = FalharArquivo(ingest)     \* palpites.json missing or unreadable
       \/ LET dados == palpitesArq[ingest.caminho[1]]
              pergunta == /\ PalpitesExistentes(dados, ingest.rodada[1]) # <<>>
                          /\ ~ ingest.forcar
          IN  \E resposta \in (IF pergunta THEN BOOLEAN ELSE {TRUE}) :
                 ingest' = IF resposta
                           THEN [ingest EXCEPT !.dados = <<dados>>, !.pc = "salvar"]
                           ELSE Retornar(ingest, 1)
    /\ UNCHANGED <<varsPontuacao, regras, varsArquivos, exec, varsAnalise>>

\* atualizar_palpites_participante and salvar_palpites_participante
SalvarPalpites ==
    /\ ingest.pc = "salvar"
    /\ \E agora \in {relogio, IF relogio < MaxRelogio THEN relogio + 1 ELSE relogio} :
         /\ relogio' = agora
         /\ LET dados_atualizados ==
                    atualizar_palpites_participante(
                        ingest.dados[1], ingest.rodada[1],
                        ingest.regulares.validados, ingest.extras.validados, agora)
                 mesclado == [ingest EXCEPT !.dados = <<dados_atualizados>>,
                                            !.mesclou = TRUE]
            IN  \/ /\ palpitesArq' =
                         [palpitesArq EXCEPT ![ingest.caminho[1]] = dados_atualizados]
                   /\ ingest' = Retornar(mesclado, 0)
                \/ /\ palpitesArq' = palpitesArq       \* the file cannot be opened
                   /\ ingest' = FalharArquivo(mesclado)
    /\ UNCHANGED <<varsPontuacao, regras, tabelaArq, backups, relatorios, exec, varsAnalise>>

\* dados_participante at the update of a section: read from the file in the
\* first iteration of the loop, the value kept from an earlier iteration
\* otherwise; <<>> when no earlier iteration has read the file (NameError)
DadosDaSecao(ing, arquivos, caminho) ==
    IF ing.i = 1 THEN <<arquivos[caminho[1]]>> ELSE ing.dados

\* one iteration of "for i, resultado_parsing in enumerate(...)": the bettor
\* is identified in the first one; a section with nothing to process, with
\* nothing valid, or whose overwrite the user refuses, is skipped
ProcessarSecao ==
    /\ ingest.pc = "secao"
    /\ ingest.i <= Len(ingest.blocos)
    /\ LET b == ingest.blocos[ingest.i]
           caminho == IF ingest.caminho # <<>> THEN ingest.caminho
                      ELSE identificar_participante(b.apostador, Participantes)
           regulares == Chamada(normalizar_palpites_times(b.palpites, tabelaArq),
                                b.rodada, tabelaArq)
           extras == Chamada(normalizar_palpites_times(b.apostas_extras, tabelaArq),
                             b.rodada, tabelaArq)
           dados == DadosDaSecao(ingest, palpitesArq, caminho)
           validada == [ingest EXCEPT !.caminho = caminho, !.regulares = regulares,
                                      !.extras = extras, !.rodada = b.rodada]
       IN  IF caminho = <<>>
           THEN ingest' = Retornar(ingest, 1) /\ relogio' = relogio
           ELSE IF b.palpites = <<>> /\ b.apostas_extras = <<>>
           THEN /\ ingest' = [ingest EXCEPT !.caminho = caminho, !.i = @ + 1]
                /\ relogio' = relogio
           ELSE IF regulares.validados = <<>> /\ extras.validados = <<>>
           THEN ingest' = [validada EXCEPT !.i = @ + 1] /\ relogio' = relogio
           ELSE IF dados = <<>>
           THEN ingest' = Excecao(validada, "NameError") /\ relogio' = relogio
           ELSE \/ /\ ingest.i = 1             \* palpites.json missing or unreadable
                   /\ ingest' = FalharArquivo(validada)
                   /\ relogio' = relogio
                \/ /\ PalpitesExistentes(dados[1], b.rodada[1]) # <<>>
                   /\ ~ ingest.forcar          \* the user answers no
                   /\ ingest' = [validada EXCEPT !.dados = dados, !.i = @ + 1]
                   /\ relogio' = relogio
                \/ \E agora \in {relogio, IF relogio < MaxRelogio THEN relogio + 1
                                                                 ELSE relogio} :
                     /\ relogio' = agora
                     /\ ingest' =
                          [validada EXCEPT
                              !.dados = << atualizar_palpites_participante(
                                              dados[1], b.rodada[1], regulares.validados,
                                              extras.validados, agora) >>,
                              !.total = @ + Len(regulares.validados),
                              !.mesclou = TRUE,
                              !.i = @ + 1]
    /\ UNCHANGED <<varsPontuacao, regras, tabelaArq, palpitesArq, backups, relatorios, exec, varsAnalise>>

\* after the loop the file is written once, if any regular prediction was
\* processed
SalvarSecoes ==
    /\ ingest.pc = "secao"
    /\ ingest.i > Len(ingest.blocos)
    /\ IF ingest.total > 0
       THEN \/ /\ palpitesArq' = [palpitesArq EXCEPT ![ingest.caminho[1]] = ingest.dados[1]]
               /\ ingest' = Retornar(ingest, 0)
            \/ /\ palpitesArq' = palpitesArq       \* the file cannot be opened
               /\ ingest' = FalharArquivo(ingest)
       ELSE /\ palpitesArq' = palpitesArq
            /\ ingest' = Retornar(ingest, 1)
    /\ UNCHANGED <<varsPontuacao, regras, tabelaArq, backups, relatorios, relogio, exec, varsAnalise>>

NextImportar ==
    \/ LerArgumentos
    \/ IdentificarApostador
    \/ DeterminarRodada
    \/ ValidarPalpites
    \/ CarregarPalpites
    \/ SalvarPalpites
    \/ ProcessarSecao
    \/ SalvarSecoes

SpecImportar == InitImportar /\ [][NextImportar]_vars

-----------------------------------------------------------------------------
(* Claims about the validation of a submission, checked under SpecImportar *)

\* the calls of validar_palpites_contra_tabela the run has made
ChamadasFeitas == { c \in {ingest.regulares, ingest.extras} : c.feita }

\* the games of the round with the number of the call, none when the
\* schedule has no such round
JogosDaRodadaPedida(c) ==
    IF c.rodada = <<>> THEN {}
    ELSE UNION { { tabelaArq.rodadas[r].jogos[i] : i \in 1..Len(tabelaArq.rodadas[r].jogos) } :
                   r \in { r2 \in 1..Len(tabelaArq.rodadas) :
                             tabelaArq.rodadas[r2].numero = c.rodada[1] } }

RodadaPedidaExiste(c) ==
    /\ c.rodada # <<>>
    /\ \E r \in 1..Len(tabelaArq.rodadas) : tabelaArq.rodadas[r].numero = c.rodada[1]

\* the pair (home, away) of the prediction is that of a game of the round
TemJogoNaRodada(pal, c) ==
    \E j \in JogosDaRodadaPedida(c) :
        j.mandante = pal.mandante /\ j.visitante = pal.visitante

SemPlacar(pal) == pal.gols_mandante = <<>> \/ pal.gols_visitante = <<>>

\* C18: every prediction validated for round R carries the id and the team
\* names of a game of round R whose (home, away) is the pair of a submitted
\* prediction, in that order, with the goals of that prediction; a prediction
\* whose teams match only a game of another round, or only with home and
\* away swapped, is never validated.
C18_ValidadoEhJogoDaRodada ==
    \A c \in ChamadasFeitas :
        /\ \A k \in 1..Len(c.validados) :
              \E j \in JogosDaRodadaPedida(c) :
                  /\ c.validados[k].id = j.id
                  /\ c.validados[k].mandante = j.mandante
                  /\ c.validados[k].visitante = j.visitante
                  /\ \E n \in 1..Len(c.palpites) :
                        /\ c.palpites[n].mandante = j.mandante
                        /\ c.palpites[n].visitante = j.visitante
                        /\ ~ SemPlacar(c.palpites[n])
                        /\ c.validados[k].palpite_mandante = c.palpites[n].gols_mandante[1]
                        /\ c.validados[k].palpite_visitante = c.palpites[n].gols_visitante[1]
        /\ \A n \in 1..Len(c.palpites) :
              ~ TemJogoNaRodada(c.palpites[n], c) =>
                  \A k \in 1..Len(c.validados) :
                      \/ c.validados[k].mandante # c.palpites[n].mandante
                      \/ c.validados[k].visitante # c.palpites[n].visitante

\* round 1 was validated for a submission that holds a prediction of a game
\* of round 1 next to one whose teams play each other only in another round
\* or only the other way round: the first alone was validated
C18_Witness ==
    /\ ingest.regulares.feita
    /\ ingest.regulares.rodada = <<1>>
    /\ Len(ingest.regulares.palpites) = 2
    /\ \E n \in 1..2 :
          /\ ~ TemJogoNaRodada(ingest.regulares.palpites[n], ingest.regulares)
          /\ \E j \in JogosDaTabela(tabelaArq) :
                \/ /\ j.mandante = ingest.regulares.palpites[n].mandante
                   /\ j.visitante = ingest.regulares.palpites[n].visitante
                \/ /\ j.mandante = ingest.regulares.palpites[n].visitante
                   /\ j.visitante = ingest.regulares.palpites[n].mandante
    /\ Len(ingest.regulares.validados) = 1
    /\ ingest.regulares.validados[1] = P1(2, 1)

\* the errors of a call that report the given message
ErrosDoTipo(c, tipo) == { k \in 1..Len(c.erros) : c.erros[k].erro = tipo }

\* C19: when round R is not in the schedule the call returns no validated
\* prediction and an error; otherwise each prediction with a missing goal
\* count and each prediction matching no game of round R yields exactly one
\* error and is skipped, the others are validated: validated predictions
\* plus errors are as many as the predictions submitted.
C19_ErrosPorItem ==
    \A c \in ChamadasFeitas :
        IF ~ RodadaPedidaExiste(c)
        THEN c.validados = <<>> /\ Len(c.erros) = 1
        ELSE /\ Len(c.validados) + Len(c.erros) = Len(c.palpites)
             /\ Cardinality(ErrosDoTipo(c, "Palpite sem placar especificado"))
                   = Cardinality({ n \in 1..Len(c.palpites) : SemPlacar(c.palpites[n]) })
             /\ Cardinality(ErrosDoTipo(c, "Jogo nao encontrado na rodada"))
                   = Cardinality({ n \in 1..Len(c.palpites) :
                                     /\ ~ SemPlacar(c.palpites[n])
                                     /\ ~ TemJogoNaRodada(c.palpites[n], c) })
             /\ Len(c.validados)
                   = Cardinality({ n \in 1..Len(c.palpites) :
                                     /\ ~ SemPlacar(c.palpites[n])
                                     /\ TemJogoNaRodada(c.palpites[n], c) })

\* a submission whose first prediction lacks a goal count and whose second
\* is a game of the round: one error, and the second was still validated
C19_Witness ==
    /\ ingest.regulares.feita
    /\ RodadaPedidaExiste(ingest.regulares)
    /\ Len(ingest.regulares.palpites) = 2
    /\ SemPlacar(ingest.regulares.palpites[1])
    /\ Len(ingest.regulares.erros) = 1
    /\ Len(ingest.regulares.validados) = 1

\* the bettor of the text is missing or has no directory
ApostadorIndeterminado ==
    /\ ingest.blocos # <<>>
    /\ identificar_participante(ingest.blocos[1].apostador, Participantes) = <<>>

\* no round was forced and the text gives none, explicit or inferred
RodadaIndeterminada ==
    /\ ingest.blocos # <<>>
    /\ ingest.args_rodada = <<>>
    /\ \A k \in 1..Len(ingest.blocos) : ingest.blocos[k].rodada = <<>>

\* C20: when the participant or the round of a submission cannot be
\* determined, the import is blocked: the run ends with a failure and no
\* palpites.json is modified.
C20_ImportacaoBloqueada ==
    (ApostadorIndeterminado \/ RodadaIndeterminada) =>
        /\ palpitesArq = ingest.inicio
        /\ ingest.pc \notin {"carregar", "salvar"}
        /\ ingest.pc = "fim" => ingest.retorno = <<1>>

\* a run ended on a text that names a known bettor and holds a prediction of
\* a scheduled game, but no round
C20_Witness ==
    /\ ingest.pc = "fim"
    /\ RodadaIndeterminada
    /\ ~ ApostadorIndeterminado
    /\ \E n \in 1..Len(ingest.blocos[1].palpites) :
          ingest.blocos[1].palpites[n] = BrutoCerto
    /\ ingest.retorno = <<1>>

-----------------------------------------------------------------------------
(* Claims about the commit of a round, checked under SpecProc *)

\* the keys of tabela.json other than the pointer
CamposFixosDaTabela == {"campeonato", "temporada", "codigo_campeonato", "rodadas"}

\* the step rewrote tabela.json: the pointer is the round of the run and
\* every other key holds what it held
SoPonteiroMuda ==
    tabelaArq' # tabelaArq =>
        /\ DOMAIN tabelaArq' = DOMAIN tabelaArq
        /\ tabelaArq'.rodada_atual = exec.rodada
        /\ \A campo \in CamposFixosDaTabela : tabelaArq'[campo] = tabelaArq[campo]

\* a run of the final mode has ended with success
CommitConcluido ==
    exec.modo = "final" /\ exec.pc = "fim" /\ exec.retorno = "sucesso"

\* C26: atualizar_rodada_atual sets rodada_atual to the round given and leaves
\* every other field of the schedule unchanged; after a successful run of the
\* final mode for round N the stored rodada_atual is N and the report of
\* round N exists.
C26_PonteiroDaRodada ==
    /\ [][SoPonteiroMuda]_vars
    /\ [](CommitConcluido =>
            /\ tabelaArq.rodada_atual = exec.rodada
            /\ exec.rodada \in DOMAIN relatorios)

\* a second run committed round 2 on a schedule whose pointer was at 1
C26_Witness ==
    /\ CommitConcluido
    /\ exec.rodada = 2
    /\ exec.inicio.tabela.rodada_atual = 1
    /\ tabelaArq.rodada_atual = 2
    /\ tabelaArq.campeonato = "Brasileirao"
    /\ Len(tabelaArq.rodadas) = 2
    /\ 2 \in DOMAIN relatorios

-----------------------------------------------------------------------------
(* Claims about the stored record after an import, checked under SpecImportar *)

\* no two entries of the list with the same round number, and in no entry
\* two stored predictions with the same id
SemRepeticao(lista) ==
    /\ \A a, b \in 1..Len(lista) : lista[a].rodada = lista[b].rodada => a = b
    /\ \A e \in 1..Len(lista) :
          \A a, b \in 1..Len(lista[e].jogos) :
              lista[e].jogos[a].id = lista[e].jogos[b].id => a = b

\* C28: after ingestions that start from an empty participant record, the
\* record holds at most one entry per round number and every entry at most
\* one stored prediction per game id, also when one submission holds two
\* score lines of the same fixture.
C28_UmPalpitePorJogo ==
    \A p \in Participantes :
        (ingest.inicio # <<>> /\ ingest.inicio[p].palpites = <<>>) =>
            SemRepeticao(palpitesArq[p].palpites)

\* a text with two score lines of the same fixture was saved into a record
\* that was empty
C28_Witness ==
    /\ ingest.pc = "fim"
    /\ ingest.retorno = <<0>>
    /\ ingest.inicio[ingest.caminho[1]].palpites = <<>>
    /\ Len(ingest.regulares.validados) = 2
    /\ ingest.regulares.validados[1].id = ingest.regulares.validados[2].id

\* the regular predictions of section k that the schedule validates
ValidosDaSecao(k) ==
    validar_palpites_contra_tabela(
        normalizar_palpites_times(ingest.blocos[k].palpites, tabelaArq),
        ingest.blocos[k].rodada, tabelaArq).validados

\* the extra bets of section k that the schedule validates
ExtrasValidasDaSecao(k) ==
    validar_palpites_contra_tabela(
        normalizar_palpites_times(ingest.blocos[k].apostas_extras, tabelaArq),
        ingest.blocos[k].rodada, tabelaArq).validados

\* the stored record of the bettor holds, under the round of section k, every
\* prediction validated for that section
SecaoGuardada(k) ==
    LET lista == palpitesArq[ingest.caminho[1]].palpites
    IN  \E e \in 1..Len(lista) :
           /\ lista[e].rodada = ingest.blocos[k].rodada[1]
           /\ \A n \in 1..Len(ValidosDaSecao(k)) :
                 \E g \in 1..Len(lista[e].jogos) : lista[e].jogos[g] = ValidosDaSecao(k)[n]

\* a run over a text of several rounds has ended, every round of the text
\* was asked for, no overwrite was refused and no file access failed
ImportacaoDeVariasRodadas ==
    /\ ingest.pc = "fim"
    /\ ingest.varias
    /\ ingest.args_rodada = <<>>
    /\ ingest.forcar
    /\ ingest.causa # "arquivo"
    /\ ~ ApostadorIndeterminado

\* C29: in an import of several rounds every section with at least one valid
\* prediction is merged into the record of the participant and the record is
\* saved at the end, whatever happened to the earlier sections; the stored
\* record is loaded before the first merge.
C29_TodaSecaoValidaGuardada ==
    ImportacaoDeVariasRodadas =>
        /\ ingest.causa # "NameError"
        /\ \A k \in 1..Len(ingest.blocos) :
              ValidosDaSecao(k) # <<>> => (ingest.retorno = <<0>> /\ SecaoGuardada(k))

\* the first section of the text had nothing valid and the second one had a
\* valid prediction: the run ended
C29_Witness ==
    /\ ImportacaoDeVariasRodadas
    /\ Len(ingest.blocos) = 2
    /\ ingest.blocos[1].palpites # <<>>
    /\ ValidosDaSecao(1) = <<>>
    /\ ExtrasValidasDaSecao(1) = <<>>
    /\ ValidosDaSecao(2) # <<>>

\* C30: a submission whose only valid items are extra bets is persisted the
\* same way by both paths of main: once an extra bet of a round has been
\* validated and merged into the record, the record is saved and the run
\* succeeds.
C30_ExtrasGuardadasNosDoisCaminhos ==
    (/\ ingest.pc = "fim"
     /\ ingest.mesclou
     /\ ingest.causa # "arquivo"
     /\ ingest.extras.validados # <<>>) =>
        /\ ingest.retorno = <<0>>
        /\ palpitesArq[ingest.caminho[1]] = ingest.dados[1]

\* the same for the path of a text of one round alone
C30_ExtrasGuardadasNumaRodada ==
    (/\ ingest.pc = "fim"
     /\ ~ ingest.varias
     /\ ingest.mesclou
     /\ ingest.causa # "arquivo"
     /\ ingest.extras.validados # <<>>) =>
        /\ ingest.retorno = <<0>>
        /\ palpitesArq[ingest.caminho[1]] = ingest.dados[1]

\* a text of several rounds ended after merging a section whose only valid
\* item was an extra bet
C30_Witness ==
    /\ ingest.pc = "fim"
    /\ ingest.varias
    /\ ingest.mesclou
    /\ ingest.causa = "nenhuma"
    /\ ingest.total = 0
    /\ ingest.extras.validados # <<>>

-----------------------------------------------------------------------------
(* utils/parser.py: the texts it reads *)

\* a text has at most MaxLinhas lines
MaxLinhas == 3

\* A line is a sequence of tokens: a word (pal), a number (num) or a sign
\* (sinal); esp tells whether whitespace precedes the token in the line.
Pal(v, e)   == [t |-> "pal", v |-> v, n |-> 0, esp |-> e]
Num(n, e)   == [t |-> "num", v |-> "", n |-> n, esp |-> e]
Sinal(v, e) == [t |-> "sinal", v |-> v, n |-> 0, esp |-> e]

\* str.lower() and re.IGNORECASE on the words of the texts
Minusculas(v) ==
    CASE v = "Rodada" -> "rodada"
      [] v = "R" -> "r"
      [] v = "Jornada" -> "jornada"
      [] v = "Aposta" -> "aposta"
      [] v = "Extra" -> "extra"
      [] v = "Jogo" -> "jogo"
      [] v = "X" -> "x"
      [] OTHER -> v

\* the word, in lower case, ends with / starts with the literal of a pattern
TerminaCom(tk, literal) ==
    /\ tk.t = "pal"
    /\ <<Minusculas(tk.v), literal>> \in
           {<<"rodada", "rodada">>, <<"jornada", "jornada">>, <<"r", "r">>,
            <<"round", "round">>}

ComecaCom(tk, literal) ==
    /\ tk.t = "pal"
    /\ <<Minusculas(tk.v), literal>> \in
           {<<"rodada", "rodada">>, <<"jornada", "jornada">>,
            <<"round", "round">>, <<"round", "r">>, <<"rodada", "r">>}

EhSinal(tk, v) == tk.t = "sinal" /\ tk.v = v
EhPalavra(tk, v) == tk.t = "pal" /\ Minusculas(tk.v) = v

\* the lines of the texts
LinhaRodada(n)      == <<Pal("Rodada", FALSE), Num(n, TRUE)>>
LinhaOrdinal(n)     == <<Num(n, FALSE), Sinal("ª", FALSE), Pal("Rodada", TRUE)>>
LinhaR(n)           == <<Pal("R", FALSE), Num(n, FALSE)>>
LinhaJornada(n)     == <<Pal("Jornada", FALSE), Num(n, TRUE)>>
LinhaApostaExtra    == <<Pal("Aposta", FALSE), Pal("Extra", TRUE), Sinal(":", FALSE)>>
\* "A 2x1 B" and "A 2 x 1 B"
LinhaPlacar(a, gm, sep, gv, b, espacado) ==
    <<Pal(a, FALSE), Num(gm, TRUE), IF sep = "x" THEN Pal("x", espacado) ELSE Sinal(sep, espacado),
      Num(gv, espacado), Pal(b, TRUE)>>
\* "A (2) x (1) B"
LinhaParenteses(a, gm, gv, b) ==
    <<Pal(a, FALSE), Sinal("(", TRUE), Num(gm, FALSE), Sinal(")", FALSE), Pal("x", TRUE),
      Sinal("(", TRUE), Num(gv, FALSE), Sinal(")", FALSE), Pal(b, TRUE)>>
\* "A x B"
LinhaSemPlacar(a, b) == <<Pal(a, FALSE), Pal("x", TRUE), Pal(b, TRUE)>>
\* "Jogo 5: " before a line
ComPrefixoJogo(n, linha) ==
    <<Pal("Jogo", FALSE), Num(n, TRUE), Sinal(":", FALSE)>>
        \o <<[linha[1] EXCEPT !.esp = TRUE]>> \o Tail(linha)

\* round markers and the header of the extra bets
LinhasDeMarcador ==
    {LinhaRodada(99), LinhaRodada(2), LinhaOrdinal(1), LinhaR(3), LinhaJornada(4),
     LinhaApostaExtra}

\* score lines with both goal counts within 0..20
LinhasComPlacar ==
    {LinhaPlacar("Flamengo", 2, "x", 1, "Palmeiras", FALSE),
     LinhaPlacar("Santos", 1, "-", 0, "Gremio", TRUE),
     LinhaParenteses("Santos", 0, 0, "Gremio")}

\* score lines with a goal count above 20
LinhasForaDoIntervalo ==
    {LinhaPlacar("Flamengo", 25, "x", 1, "Palmeiras", TRUE),
     LinhaPlacar("Santos", 1, "x", 25, "Gremio", FALSE)}

LinhasSemPlacar == {LinhaSemPlacar("Flamengo", "Palmeiras")}

\* score lines with the prefix of an extra bet
LinhasDeJogo ==
    {ComPrefixoJogo(5, LinhaPlacar("Botafogo", 2, "x", 2, "Vasco", FALSE))}

Linhas ==
    LinhasDeMarcador \cup LinhasComPlacar \cup LinhasForaDoIntervalo
        \cup LinhasSemPlacar \cup LinhasDeJogo

TextosDoParser == UNION {[1..k -> Linhas] : k \in 0..MaxLinhas}

\* the text as one sequence of tokens: a line break is whitespace
RECURSIVE Achatar(_)
Achatar(linhas) ==
    IF linhas = <<>> THEN <<>>
    ELSE IF Head(linhas) = <<>> THEN Achatar(Tail(linhas))
    ELSE <<[Head(linhas)[1] EXCEPT !.esp = TRUE]>> \o Tail(Head(linhas))
             \o Achatar(Tail(linhas))

-----------------------------------------------------------------------------
(* utils/parser.py: extrair_rodada *)

\* r'(\d+)[ªº]?\s*rodada' and r'(\d+)[ªº]?\s*jornada' match the number at i
CasaNumeroAntes(toks, i, marca) ==
    /\ toks[i].t = "num"
    /\ \/ i + 1 <= Len(toks) /\ ComecaCom(toks[i + 1], marca)
       \/ /\ i + 2 <= Len(toks)
          /\ EhSinal(toks[i + 1], "ª") /\ ~ toks[i + 1].esp
          /\ ComecaCom(toks[i + 2], marca)

\* r'rodada\s*(\d+)', r'r\s*(\d+)', r'round\s*(\d+)' and r'jornada\s*(\d+)'
\* match the number at i
CasaNumeroDepois(toks, i, marca) ==
    /\ toks[i].t = "num"
    /\ i > 1
    /\ TerminaCom(toks[i - 1], marca)

\* the list padroes
Padroes ==
    << [antes |-> TRUE,  marca |-> "rodada"],
       [antes |-> FALSE, marca |-> "rodada"],
       [antes |-> FALSE, marca |-> "r"],
       [antes |-> FALSE, marca |-> "round"],
       [antes |-> TRUE,  marca |-> "jornada"],
       [antes |-> FALSE, marca |-> "jornada"] >>

CasaPadrao(toks, i, padrao) ==
    IF padrao.antes THEN CasaNumeroAntes(toks, i, padrao.marca)
    ELSE CasaNumeroDepois(toks, i, padrao.marca)

\* re.findall(padrao, texto_lower): the numbers matched, in text order
Casamentos(toks, padrao) ==
    LET casa(i) == CasaPadrao(toks, i, padrao)
        idx == SelectSeq([i \in 1..Len(toks) |-> i], casa)
    IN  [k \in 1..Len(idx) |-> toks[idx[k]].n]

\* the loop over padroes from the k-th on: matches[0] when it is in 1..50
RECURSIVE RodadaDosPadroes(_, _)
RodadaDosPadroes(toks, k) ==
    IF k > Len(Padroes) THEN <<>>
    ELSE IF /\ Casamentos(toks, Padroes[k]) # <<>>
            /\ 1 <= Casamentos(toks, Padroes[k])[1]
            /\ Casamentos(toks, Padroes[k])[1] <= 50
         THEN <<Casamentos(toks, Padroes[k])[1]>>
         ELSE RodadaDosPadroes(toks, k + 1)

\* <<>> is None
extrair_rodada(linhas) ==
    IF linhas = <<>> THEN <<>> ELSE RodadaDosPadroes(Achatar(linhas), 1)

-----------------------------------------------------------------------------
(* utils/parser.py: extrair_palpites and identificar_apostas_extras *)

MenorDe(S) == CHOOSE x \in S : \A y \in S : x <= y

\* the separators of padroes_placar; "()" stands for "Time1 (2) x (1) Time2"
padroes_placar == <<"x", "-", ":", "()">>

EhSeparador(tk, sep) == IF sep = "x" THEN EhPalavra(tk, "x") ELSE EhSinal(tk, sep)

\* r'(.+?)\s+(\d+)\s*x\s*(\d+)\s+(.+)' with the first number at token i
CasaPlacar(toks, i, sep) ==
    /\ i >= 2
    /\ i + 3 <= Len(toks)
    /\ toks[i].t = "num" /\ toks[i].esp
    /\ EhSeparador(toks[i + 1], sep)
    /\ toks[i + 2].t = "num"
    /\ toks[i + 3].esp

\* r'(.+?)\s*\(\s*(\d+)\s*\)\s*x\s*\(\s*(\d+)\s*\)\s*(.+)' with "(" at token i
CasaParenteses(toks, i) ==
    /\ i >= 2
    /\ i + 7 <= Len(toks)
    /\ EhSinal(toks[i], "(") /\ toks[i + 1].t = "num" /\ EhSinal(toks[i + 2], ")")
    /\ EhPalavra(toks[i + 3], "x")
    /\ EhSinal(toks[i + 4], "(") /\ toks[i + 5].t = "num" /\ EhSinal(toks[i + 6], ")")

\* the positions where the pattern matches; re.match takes the least one,
\* (.+?) being lazy
PosicoesDoPadrao(toks, sep) ==
    IF sep = "()" THEN {i \in 1..Len(toks) : CasaParenteses(toks, i)}
    ELSE {i \in 1..Len(toks) : CasaPlacar(toks, i, sep)}

\* the groups of the match at position i
GruposDoPadrao(toks, sep, i) ==
    IF sep = "()"
    THEN [mandante |-> SubSeq(toks, 1, i - 1), gols_mandante |-> toks[i + 1].n,
          gols_visitante |-> toks[i + 5].n, visitante |-> SubSeq(toks, i + 7, Len(toks))]
    ELSE [mandante |-> SubSeq(toks, 1, i - 1), gols_mandante |-> toks[i].n,
          gols_visitante |-> toks[i + 2].n, visitante |-> SubSeq(toks, i + 3, Len(toks))]

\* "0 <= gols_mandante <= 20 and 0 <= gols_visitante <= 20"
PlacarValido(g) ==
    /\ 0 <= g.gols_mandante /\ g.gols_mandante <= 20
    /\ 0 <= g.gols_visitante /\ g.gols_visitante <= 20

EntradaComPlacar(g) ==
    [mandante |-> g.mandante, visitante |-> g.visitante,
     gols_mandante |-> <<g.gols_mandante>>, gols_visitante |-> <<g.gols_visitante>>,
     identificador |-> <<>>]

\* "for padrao in padroes_placar" from the k-th pattern on: the entry of the
\* first pattern that matches with a valid score, <<>> when there is none
RECURSIVE PalpiteComPlacar(_, _)
PalpiteComPlacar(toks, k) ==
    IF k > Len(padroes_placar) THEN <<>>
    ELSE IF /\ PosicoesDoPadrao(toks, padroes_placar[k]) # {}
            /\ PlacarValido(GruposDoPadrao(toks, padroes_placar[k],
                                MenorDe(PosicoesDoPadrao(toks, padroes_placar[k]))))
         THEN <<EntradaComPlacar(GruposDoPadrao(toks, padroes_placar[k],
                                MenorDe(PosicoesDoPadrao(toks, padroes_placar[k]))))>>
         ELSE PalpiteComPlacar(toks, k + 1)

\* r'(.+?)\s+x\s+(.+)' with the x at token i
CasaSemPlacar(toks, i) ==
    /\ i >= 2
    /\ i + 1 <= Len(toks)
    /\ EhPalavra(toks[i], "x") /\ toks[i].esp
    /\ toks[i + 1].esp

\* re.match(r'^\d+$', nome)
SoDigitos(nome) == Len(nome) = 1 /\ nome[1].t = "num"

\* the fallback "Time1 x Time2", both goals None
PalpiteSemPlacar(toks) ==
    IF {i \in 1..Len(toks) : CasaSemPlacar(toks, i)} = {} THEN <<>>
    ELSE IF \/ SoDigitos(SubSeq(toks, 1, MenorDe({i \in 1..Len(toks) : CasaSemPlacar(toks, i)}) - 1))
            \/ SoDigitos(SubSeq(toks, MenorDe({i \in 1..Len(toks) : CasaSemPlacar(toks, i)}) + 1, Len(toks)))
         THEN <<>>
         ELSE <<[mandante |-> SubSeq(toks, 1, MenorDe({i \in 1..Len(toks) : CasaSemPlacar(toks, i)}) - 1),
                 visitante |-> SubSeq(toks, MenorDe({i \in 1..Len(toks) : CasaSemPlacar(toks, i)}) + 1, Len(toks)),
                 gols_mandante |-> <<>>, gols_visitante |-> <<>>, identificador |-> <<>>]>>

\* re.search(r'(apostador|nome|rodada|jornada|aposta\s+extra)', linha)
EhCabecalho(toks) ==
    \E i \in 1..Len(toks) :
        \/ /\ toks[i].t = "pal"
           /\ Minusculas(toks[i].v) \in {"apostador", "nome", "rodada", "jornada"}
        \/ /\ EhPalavra(toks[i], "aposta")
           /\ i + 1 <= Len(toks)
           /\ EhPalavra(toks[i + 1], "extra") /\ toks[i + 1].esp

\* re.match(r'jogo\s*\d+\s*:', linha)
TemPrefixoJogo(toks) ==
    /\ Len(toks) >= 3
    /\ EhPalavra(toks[1], "jogo") /\ toks[2].t = "num" /\ EhSinal(toks[3], ":")

\* the body of the loop of extrair_palpites for one line
PalpitesDaLinha(toks) ==
    IF toks = <<>> \/ EhCabecalho(toks) \/ TemPrefixoJogo(toks) THEN <<>>
    ELSE IF PalpiteComPlacar(toks, 1) # <<>> THEN PalpiteComPlacar(toks, 1)
    ELSE PalpiteSemPlacar(toks)

RECURSIVE extrair_palpites(_)
extrair_palpites(linhas) ==
    IF linhas = <<>> THEN <<>>
    ELSE PalpitesDaLinha(Head(linhas)) \o extrair_palpites(Tail(linhas))

\* re.search(r'aposta\s+extra|apostas\s+extras|extra\s*:', linha)
IniciaSecaoExtra(toks) ==
    \E i \in 1..Len(toks) :
        /\ i + 1 <= Len(toks)
        /\ \/ EhPalavra(toks[i], "aposta") /\ EhPalavra(toks[i + 1], "extra") /\ toks[i + 1].esp
           \/ EhPalavra(toks[i], "apostas") /\ EhPalavra(toks[i + 1], "extras") /\ toks[i + 1].esp
           \/ EhPalavra(toks[i], "extra") /\ EhSinal(toks[i + 1], ":")

\* re.search(r'^\d+[ªº]?\s*rodada|^rodada\s*\d+', linha)
TerminaSecaoExtra(toks) ==
    \/ CasaNumeroAntes(toks, 1, "rodada")
    \/ Len(toks) >= 2 /\ EhPalavra(toks[1], "rodada") /\ toks[2].t = "num"

\* re.match(r'(jogo\s*\d+)\s*:\s*(.+)', linha) and the loop over padroes_placar
\* on the text after the colon
ApostaDaLinha(toks) ==
    IF TemPrefixoJogo(toks) /\ Len(toks) >= 4
    THEN IF PalpiteComPlacar(SubSeq(toks, 4, Len(toks)), 1) = <<>> THEN <<>>
         ELSE <<[PalpiteComPlacar(SubSeq(toks, 4, Len(toks)), 1)[1]
                    EXCEPT !.identificador = <<toks[2].n>>]>>
    ELSE <<>>

\* the loop of identificar_apostas_extras from the given line on;
\* em_secao_extra is the flag of the loop
RECURSIVE ApostasExtrasDasLinhas(_, _)
ApostasExtrasDasLinhas(linhas, em_secao_extra) ==
    IF linhas = <<>> THEN <<>>
    ELSE IF Head(linhas) = <<>> THEN ApostasExtrasDasLinhas(Tail(linhas), em_secao_extra)
    ELSE IF IniciaSecaoExtra(Head(linhas)) THEN ApostasExtrasDasLinhas(Tail(linhas), TRUE)
    ELSE IF em_secao_extra /\ TerminaSecaoExtra(Head(linhas))
         THEN ApostasExtrasDasLinhas(Tail(linhas), FALSE)
    ELSE IF em_secao_extra
         THEN ApostaDaLinha(Head(linhas)) \o ApostasExtrasDasLinhas(Tail(linhas), TRUE)
    ELSE ApostaDaLinha(Head(linhas)) \o ApostasExtrasDasLinhas(Tail(linhas), FALSE)

identificar_apostas_extras(linhas) == ApostasExtrasDasLinhas(linhas, FALSE)

-----------------------------------------------------------------------------
(* One call of a function of utils/parser.py on a text *)

InitParser ==
    /\ palpite = [palpite_mandante |-> 0, palpite_visitante |-> 0]
    /\ resultado = [gols_mandante |-> 0, gols_visitante |-> 0]
    /\ total_acertos = 0
    /\ saida = <<>>
    /\ regras = RegrasPadrao
    /\ tabelaArq = TabelaVazia
    /\ palpitesArq = <<>>
    /\ backups = <<>>
    /\ relatorios = <<>>
    /\ relogio = 0
    /\ exec = ExecInicial
    /\ ingest = IngestInicial
    /\ texto \in TextosDoParser
    /\ analise = <<>>

ExtrairRodada ==
    /\ analise = <<>>
    /\ analise' = <<[funcao |-> "extrair_rodada", rodada |-> extrair_rodada(texto),
                    palpites |-> <<>>]>>
    /\ UNCHANGED <<varsPontuacao, regras, varsArquivos, exec, ingest, texto>>

ExtrairPalpites ==
    /\ analise = <<>>
    /\ analise' = <<[funcao |-> "extrair_palpites", rodada |-> <<>>,
                    palpites |-> extrair_palpites(texto)]>>
    /\ UNCHANGED <<varsPontuacao, regras, varsArquivos, exec, ingest, texto>>

IdentificarApostasExtras ==
    /\ analise = <<>>
    /\ analise' = <<[funcao |-> "identificar_apostas_extras", rodada |-> <<>>,
                    palpites |-> identificar_apostas_extras(texto)]>>
    /\ UNCHANGED <<varsPontuacao, regras, varsArquivos, exec, ingest, texto>>

NextParser ==
    \/ ExtrairRodada
    \/ ExtrairPalpites
    \/ IdentificarApostasExtras

SpecParser == InitParser /\ [][NextParser]_vars

-----------------------------------------------------------------------------
(* Claims about extrair_rodada, checked under SpecParser *)

\* every number that some pattern of extrair_rodada matches in the text
NumerosCasados ==
    {Achatar(texto)[i].n : i \in {j \in 1..Len(Achatar(texto)) :
        \E k \in 1..Len(Padroes) : CasaPadrao(Achatar(texto), j, Padroes[k])}}

RodadaExtraida == analise # <<>> /\ analise[1].funcao = "extrair_rodada"

\* C27: extrair_rodada returns a round number within 1..50 that one of the
\* recognized forms matches, and none only when no matched number lies in
\* 1..50: an out-of-range number matched earlier does not hide a later
\* in-range marker.
C27_RodadaDentroDoIntervalo ==
    RodadaExtraida =>
        IF NumerosCasados \cap (1..50) = {}
        THEN analise[1].rodada = <<>>
        ELSE /\ analise[1].rodada # <<>>
             /\ analise[1].rodada[1] \in NumerosCasados \cap (1..50)

\* "Rodada 99" before "Rodada 2": the call has returned
C27_Witness ==
    /\ RodadaExtraida
    /\ texto = <<LinhaRodada(99), LinhaRodada(2)>>

-----------------------------------------------------------------------------
(* Claims about the extracted predictions, checked under SpecParser *)

PalpitesExtraidos == analise # <<>> /\ analise[1].funcao = "extrair_palpites"
ExtrasIdentificadas == analise # <<>> /\ analise[1].funcao = "identificar_apostas_extras"

LinhasDeRodada == LinhasDeMarcador \ {LinhaApostaExtra}

\* line i of the text is inside a marked section of extra bets: after the
\* header, with no round marker in between
DentroDeSecaoExtra(t, i) ==
    \E j \in 1..(i - 1) :
        /\ t[j] = LinhaApostaExtra
        /\ \A k \in (j + 1)..(i - 1) : t[k] \notin LinhasDeRodada

\* the entry gives the teams of the line (the first and the last word)
EntradaDaLinha(e, linha) ==
    /\ e.mandante # <<>> /\ e.visitante # <<>>
    /\ e.mandante[1].v = IF linha \in LinhasDeJogo THEN linha[4].v ELSE linha[1].v
    /\ e.visitante[Len(e.visitante)].v = linha[Len(linha)].v

\* C24: a score line prefixed "Jogo <n>:" is extracted as an extra bet with
\* that identifier, inside a marked section or not, and never as a regular
\* prediction; a score line inside a marked section of extra bets is
\* extracted as an extra bet even without the prefix.
C24_ApostasExtrasExtraidas ==
    /\ ExtrasIdentificadas =>
          \A i \in DOMAIN texto :
              /\ texto[i] \in LinhasDeJogo =>
                    \E k \in DOMAIN analise[1].palpites :
                        /\ EntradaDaLinha(analise[1].palpites[k], texto[i])
                        /\ analise[1].palpites[k].identificador = <<texto[i][2].n>>
              /\ (texto[i] \in LinhasComPlacar /\ DentroDeSecaoExtra(texto, i)) =>
                    \E k \in DOMAIN analise[1].palpites :
                        EntradaDaLinha(analise[1].palpites[k], texto[i])
    /\ PalpitesExtraidos =>
          \A i \in DOMAIN texto : \A k \in DOMAIN analise[1].palpites :
              texto[i] \in LinhasDeJogo => ~ EntradaDaLinha(analise[1].palpites[k], texto[i])

\* the half about the prefix alone
C24_PrefixoJogo ==
    /\ ExtrasIdentificadas =>
          \A i \in DOMAIN texto :
              texto[i] \in LinhasDeJogo =>
                  \E k \in DOMAIN analise[1].palpites :
                      /\ EntradaDaLinha(analise[1].palpites[k], texto[i])
                      /\ analise[1].palpites[k].identificador = <<texto[i][2].n>>
    /\ PalpitesExtraidos =>
          \A i \in DOMAIN texto : \A k \in DOMAIN analise[1].palpites :
              texto[i] \in LinhasDeJogo => ~ EntradaDaLinha(analise[1].palpites[k], texto[i])

\* "Aposta Extra:", a prefixed score line and a score line without prefix
C24_Witness ==
    /\ ExtrasIdentificadas
    /\ Len(texto) = 3
    /\ texto[1] = LinhaApostaExtra
    /\ texto[2] \in LinhasDeJogo
    /\ texto[3] \in LinhasComPlacar

GolsNoIntervalo(e) ==
    \/ e.gols_mandante = <<>> /\ e.gols_visitante = <<>>
    \/ /\ Len(e.gols_mandante) = 1 /\ e.gols_mandante[1] \in 0..20
       /\ Len(e.gols_visitante) = 1 /\ e.gols_visitante[1] \in 0..20

SemGols(lista) == {k \in DOMAIN lista : lista[k].gols_mandante = <<>>}

LinhasEm(t, conjunto) == {i \in DOMAIN t : t[i] \in conjunto}

\* every goal count is absent or within 0..20
C25_GolsAusentesOuNoIntervalo ==
    (PalpitesExtraidos \/ ExtrasIdentificadas) =>
        \A k \in DOMAIN analise[1].palpites : GolsNoIntervalo(analise[1].palpites[k])

\* C25: every goal count in the output of extrair_palpites and of
\* identificar_apostas_extras is absent (only for a bare "A x B" line, both
\* absent together) or an integer within 0..20; an out-of-range score line
\* produces no entry and does not abort the other lines.
C25_PlacarForaDoIntervaloDescartado ==
    /\ C25_GolsAusentesOuNoIntervalo
    /\ PalpitesExtraidos =>
          /\ Cardinality(SemGols(analise[1].palpites))
                = Cardinality(LinhasEm(texto, LinhasSemPlacar))
          /\ Len(analise[1].palpites)
                = Cardinality(LinhasEm(texto, LinhasComPlacar \cup LinhasSemPlacar))
    /\ ExtrasIdentificadas =>
          /\ SemGols(analise[1].palpites) = {}
          /\ Len(analise[1].palpites) = Cardinality(LinhasEm(texto, LinhasDeJogo))

\* "Flamengo 25 x 1 Palmeiras" next to a valid score line
C25_Witness ==
    /\ PalpitesExtraidos
    /\ LinhasEm(texto, LinhasForaDoIntervalo) # {}
    /\ LinhasEm(texto, LinhasComPlacar) # {}

-----------------------------------------------------------------------------
(* utils/normalizacao.py: normalizar_nome_time *)

\* a written name has at most MaxNome characters
MaxNome == 3

\* a name is a sequence of characters
Alfabeto == {"a", "A", "ã", "/", "-", " ", "!"}

NomesEscritos == UNION {[1..k -> Alfabeto] : k \in 0..MaxNome}

\* str.strip(c): the characters c of both ends removed
RECURSIVE ApararInicio(_, _)
ApararInicio(s, c) ==
    IF s # <<>> /\ Head(s) = c THEN ApararInicio(Tail(s), c) ELSE s

RECURSIVE ApararFim(_, _)
ApararFim(s, c) ==
    IF s # <<>> /\ s[Len(s)] = c THEN ApararFim(SubSeq(s, 1, Len(s) - 1), c) ELSE s

Aparar(s, c) == ApararFim(ApararInicio(s, c), c)

\* unicodedata.normalize('NFD', nome) without the characters of category Mn
SemAcento(c) == IF c = "ã" THEN "a" ELSE c

ManterAcentos(nome) == nome
RemoverAcentos(nome) == [i \in DOMAIN nome |-> SemAcento(nome[i])]

\* nome.lower()
Minuscula(c) == IF c = "A" THEN "a" ELSE c

EmMinusculas(nome) == [i \in DOMAIN nome |-> Minuscula(nome[i])]

\* nome.replace(de, para)
Trocar(nome, de, para) == [i \in DOMAIN nome |-> IF nome[i] = de THEN para ELSE nome[i]]

\* re.sub(r'\s+', ' ', nome) and re.sub(r'-+', '-', nome): every run of c
\* becomes one c
RECURSIVE JuntarRepetidos(_, _)
JuntarRepetidos(s, c) ==
    IF Len(s) < 2 THEN s
    ELSE IF s[1] = c /\ s[2] = c THEN JuntarRepetidos(Tail(s), c)
    ELSE <<s[1]>> \o JuntarRepetidos(Tail(s), c)

\* re.sub(r'[^a-z0-9\-]', '', nome): the lower-case letters of the names and
\* the hyphen are kept
Permitido(c) == c \in {"a", "b", "-"}

SoPermitidos(nome) == SelectSeq(nome, Permitido)

\* <<>> is the empty string
normalizar_nome_time(nome) ==
    IF nome = <<>> THEN <<>>
    ELSE Aparar(JuntarRepetidos(SoPermitidos(Trocar(JuntarRepetidos(Trocar(
             EmMinusculas(RemoverAcentos(Aparar(nome, " "))),
             "/", "-"), " "), " ", "-")), "-"), "-")

\* the spellings of a letter that differ by accent or case, of a separator
\* that differ by slash or hyphen
Grafias(c) ==
    IF c \in {"a", "A", "ã"} THEN {"a", "A", "ã"}
    ELSE IF c \in {"/", "-"} THEN {"/", "-"}
    ELSE {c}

RECURSIVE GrafiasDoNome(_)
GrafiasDoNome(nome) ==
    IF nome = <<>> THEN {<<>>}
    ELSE {<<c>> \o resto : c \in Grafias(Head(nome)), resto \in GrafiasDoNome(Tail(nome))}

\* the same name written with other accents, case, slash or hyphen and
\* surrounding whitespace
OutrasEscritas(nome) ==
    {antes \o m \o depois : antes \in {<<>>, <<" ">>}, depois \in {<<>>, <<" ">>},
                            m \in GrafiasDoNome(Aparar(nome, " "))}

InitNomes ==
    /\ palpite = [palpite_mandante |-> 0, palpite_visitante |-> 0]
    /\ resultado = [gols_mandante |-> 0, gols_visitante |-> 0]
    /\ total_acertos = 0
    /\ saida = <<>>
    /\ regras = RegrasPadrao
    /\ tabelaArq = TabelaVazia
    /\ palpitesArq = <<>>
    /\ backups = <<>>
    /\ relatorios = <<>>
    /\ relogio = 0
    /\ exec = ExecInicial
    /\ ingest = IngestInicial
    /\ texto \in NomesEscritos
    /\ analise = <<>>

\* normalizar_nome_time(texto)
NormalizarNome ==
    /\ analise = <<>>
    /\ analise' = <<[nome |-> texto, valor |-> normalizar_nome_time(texto)]>>
    /\ UNCHANGED <<varsPontuacao, regras, varsArquivos, exec, ingest, texto>>

\* a second call, on another spelling of the name
NormalizarOutraEscrita ==
    /\ Len(analise) = 1
    /\ \E m \in OutrasEscritas(texto) :
          analise' = Append(analise, [nome |-> m, valor |-> normalizar_nome_time(m)])
    /\ UNCHANGED <<varsPontuacao, regras, varsArquivos, exec, ingest, texto>>

\* a second call, on the value the first returned
NormalizarResultado ==
    /\ Len(analise) = 1
    /\ analise' = Append(analise, [nome |-> analise[1].valor,
                                   valor |-> normalizar_nome_time(analise[1].valor)])
    /\ UNCHANGED <<varsPontuacao, regras, varsArquivos, exec, ingest, texto>>

NextNomes ==
    \/ NormalizarNome
    \/ NormalizarOutraEscrita
    \/ NormalizarResultado

SpecNomes == InitNomes /\ [][NextNomes]_vars

-----------------------------------------------------------------------------
(* Claims about normalizar_nome_time, checked under SpecNomes *)

\* the two characters are the same up to accent, case and slash or hyphen
MesmaLetra(c, d) ==
    \/ c = d
    \/ {c, d} \subseteq {"a", "A", "ã"}
    \/ {c, d} \subseteq {"/", "-"}

\* the first and the last position of the name that are not whitespace
Miolo(nome) == {i \in DOMAIN nome : nome[i] # " "}

PrimeiraLetra(nome) == CHOOSE i \in Miolo(nome) : \A j \in Miolo(nome) : i <= j
UltimaLetra(nome) == CHOOSE i \in Miolo(nome) : \A j \in Miolo(nome) : j <= i

\* the names differ only by accents, case, slash or hyphen and surrounding
\* whitespace
MesmaEscrita(m, n) ==
    IF Miolo(m) = {} \/ Miolo(n) = {} THEN Miolo(m) = Miolo(n)
    ELSE /\ UltimaLetra(m) - PrimeiraLetra(m) = UltimaLetra(n) - PrimeiraLetra(n)
         /\ \A k \in 0..(UltimaLetra(m) - PrimeiraLetra(m)) :
               MesmaLetra(m[PrimeiraLetra(m) + k], n[PrimeiraLetra(n) + k])

FormaNormal(v) ==
    /\ \A i \in DOMAIN v : v[i] \in {"a", "b", "-"}
    /\ \A i \in 1..(Len(v) - 1) : ~ (v[i] = "-" /\ v[i + 1] = "-")
    /\ v # <<>> => v[1] # "-" /\ v[Len(v)] # "-"

\* C23: two names that differ only by accents, case, slash or hyphen and
\* surrounding whitespace normalize to the same value; the value has only
\* lower-case ASCII letters, digits and hyphens, no repeated hyphen and no
\* hyphen at either end; normalizing a normalized value returns it.
C23_NormalizacaoCanonica ==
    /\ \A i \in DOMAIN analise : FormaNormal(analise[i].valor)
    /\ \A i, j \in DOMAIN analise :
          /\ MesmaEscrita(analise[i].nome, analise[j].nome)
                => analise[i].valor = analise[j].valor
          /\ analise[j].nome = analise[i].valor => analise[j].valor = analise[j].nome

\* " ã/A" normalized after "a-a"
C23_Witness ==
    /\ Len(analise) = 2
    /\ analise[1].nome = <<"a", "-", "a">>
    /\ analise[2].nome = <<" ", "ã", "/", "A">>
    /\ analise[2].valor = <<"a", "-", "a">>

-----------------------------------------------------------------------------
(* utils/normalizacao.py: encontrar_time_similar on written names *)

\* the list times_validos has at most MaxTimes names
MaxTimes == 2

\* the names looked for, and the valid names of the lists
NomesProcurados == UNION {[1..k -> {"a", "A", "b"}] : k \in 0..MaxNome}

TimesConhecidos == {<<"a", "b">>, <<"A", "b">>, <<"b", "a">>, <<"b", "b", "b">>}

ListasDeTimes == UNION {[1..k -> TimesConhecidos] : k \in 0..MaxTimes}

Menor3(x, y, z) == IF x <= y /\ x <= z THEN x ELSE IF y <= z THEN y ELSE z

\* Levenshtein.distance: insertions, deletions and substitutions
RECURSIVE distance(_, _)
distance(a, b) ==
    IF a = <<>> THEN Len(b)
    ELSE IF b = <<>> THEN Len(a)
    ELSE IF Head(a) = Head(b) THEN distance(Tail(a), Tail(b))
    ELSE 1 + Menor3(distance(Tail(a), b), distance(a, Tail(b)), distance(Tail(a), Tail(b)))

\* dist of the loop, between the two normalized names
DistanciaNormalizada(nome, time_valido) ==
    distance(normalizar_nome_time(nome), normalizar_nome_time(time_valido))

\* "dist <= limite_distancia and dist < menor_distancia"; menor_distancia is
\* infinite while melhor_match is None
MelhoraOuEmpata(dist, limite_distancia, melhor_match, menor_distancia) ==
    dist <= limite_distancia /\ (melhor_match = <<>> \/ dist <= menor_distancia)
Melhora(dist, limite_distancia, melhor_match, menor_distancia) ==
    dist <= limite_distancia /\ (melhor_match = <<>> \/ dist < menor_distancia)

\* the loop over times_validos from the k-th name on
RECURSIVE MelhorTime(_, _, _, _, _, _)
MelhorTime(nome, times_validos, limite_distancia, k, melhor_match, menor_distancia) ==
    IF k > Len(times_validos) THEN melhor_match
    ELSE IF DistanciaNormalizada(nome, times_validos[k]) = 0 THEN <<times_validos[k]>>
    ELSE IF Melhora(DistanciaNormalizada(nome, times_validos[k]), limite_distancia,
                    melhor_match, menor_distancia)
         THEN MelhorTime(nome, times_validos, limite_distancia, k + 1,
                         <<times_validos[k]>>, DistanciaNormalizada(nome, times_validos[k]))
         ELSE MelhorTime(nome, times_validos, limite_distancia, k + 1,
                         melhor_match, menor_distancia)

\* <<>> is None
EncontrarTimeSimilar(nome, times_validos, limite_distancia) ==
    IF nome = <<>> \/ times_validos = <<>> THEN <<>>
    ELSE MelhorTime(nome, times_validos, limite_distancia, 1, <<>>, 0)

InitSimilar ==
    /\ palpite = [palpite_mandante |-> 0, palpite_visitante |-> 0]
    /\ resultado = [gols_mandante |-> 0, gols_visitante |-> 0]
    /\ total_acertos = 0
    /\ saida = <<>>
    /\ regras = RegrasPadrao
    /\ tabelaArq = TabelaVazia
    /\ palpitesArq = <<>>
    /\ backups = <<>>
    /\ relatorios = <<>>
    /\ relogio = 0
    /\ exec = ExecInicial
    /\ ingest = IngestInicial
    /\ texto \in [nome : NomesProcurados, times_validos : ListasDeTimes,
                  limite_distancia : {1, 3}]
    /\ analise = <<>>

ProcurarTimeSimilar ==
    /\ analise = <<>>
    /\ analise' = <<[valor |-> EncontrarTimeSimilar(texto.nome, texto.times_validos,
                                                   texto.limite_distancia)]>>
    /\ UNCHANGED <<varsPontuacao, regras, varsArquivos, exec, ingest, texto>>

NextSimilar ==
    \/ ProcurarTimeSimilar

SpecSimilar == InitSimilar /\ [][NextSimilar]_vars

-----------------------------------------------------------------------------
(* Claims about encontrar_time_similar, checked under SpecSimilar *)

\* positions of the valid names with the normalized form of the name
PosicoesIguais ==
    {k \in DOMAIN texto.times_validos :
        normalizar_nome_time(texto.times_validos[k]) = normalizar_nome_time(texto.nome)}

\* positions of the valid names within the limit and at the least distance
PosicoesMaisProximas ==
    {k \in DOMAIN texto.times_validos :
        /\ DistanciaNormalizada(texto.nome, texto.times_validos[k]) <= texto.limite_distancia
        /\ \A j \in DOMAIN texto.times_validos :
              DistanciaNormalizada(texto.nome, texto.times_validos[k])
                  <= DistanciaNormalizada(texto.nome, texto.times_validos[j])}

\* C22: encontrar_time_similar returns none or one of the valid names: the
\* first one whose normalized form equals that of the name looked for,
\* otherwise the one at the least edit distance within the limit, the first
\* in input order on ties; none when no name is within the limit or when the
\* name or the list is empty.
C22_TimeMaisProximo ==
    analise # <<>> =>
        IF texto.nome = <<>> \/ texto.times_validos = <<>> THEN analise[1].valor = <<>>
        ELSE IF PosicoesIguais # {}
        THEN analise[1].valor = <<texto.times_validos[MenorDe(PosicoesIguais)]>>
        ELSE IF PosicoesMaisProximas # {}
        THEN analise[1].valor = <<texto.times_validos[MenorDe(PosicoesMaisProximas)]>>
        ELSE analise[1].valor = <<>>

\* two valid names at the same least distance: "aa" between "ba" and "ab"
C22_Witness ==
    /\ analise # <<>>
    /\ texto.nome = <<"a", "a">>
    /\ texto.times_validos = << <<"b", "a">>, <<"a", "b">> >>
    /\ analise[1].valor = << <<"b", "a">> >>

-----------------------------------------------------------------------------
(* utils/parser.py: inferir_rodada *)

\* the list palpites has at most MaxMencoes predictions, the schedule at most
\* MaxRodadasTabela rounds
MaxMencoes == 2
MaxRodadasTabela == 2

\* the team names as written in the predictions and in the schedule
TimesEscritos == {<<"a">>, <<"A">>, <<"b">>, <<"a", "b">>, <<"b", "a">>}

Confronto(m, v) == [mandante |-> m, visitante |-> v]

\* the games named by the predictions
Confrontos ==
    { Confronto(<<"a">>, <<"b">>), Confronto(<<"A">>, <<"b">>),
      Confronto(<<"a", "b">>, <<"b", "a">>), Confronto(<<"a">>, <<"a", "b">>),
      Confronto(<<"b">>, <<"b", "a">>), Confronto(<<"A">>, <<"b", "a">>) }

ListasDeMencoes == UNION {[1..k -> Confrontos] : k \in 0..MaxMencoes}

\* the rounds of the schedules; the last one has no game
RodadasDeTabela ==
    { [numero |-> 1, jogos |-> <<Confronto(<<"a">>, <<"b">>)>>],
      [numero |-> 2, jogos |-> <<Confronto(<<"a", "b">>, <<"b", "a">>)>>],
      [numero |-> 3, jogos |-> <<Confronto(<<"a">>, <<"a", "b">>),
                                 Confronto(<<"b">>, <<"b", "a">>)>>],
      [numero |-> 4, jogos |-> <<>>] }

TabelasDeRodadas ==
    {[rodadas |-> rs] : rs \in UNION {[1..k -> RodadasDeTabela] : k \in 0..MaxRodadasTabela}}

\* times_palpites and times_rodada: the normalized names of a list of games
TimesNormalizados(jogos) ==
    {normalizar_nome_time(jogos[i].mandante) : i \in DOMAIN jogos}
        \cup {normalizar_nome_time(jogos[i].visitante) : i \in DOMAIN jogos}

\* correspondencias of one round
Correspondencias(times_palpites, rodada) ==
    Cardinality(times_palpites \cap TimesNormalizados(rodada.jogos))

\* "score > melhor_score", both over len(times_palpites)
ScoreMelhorOuIgual(correspondencias, melhores) == correspondencias >= melhores
ScoreMelhor(correspondencias, melhores) == correspondencias > melhores

\* the loop over tabela['rodadas'] from the k-th round on; melhores is
\* melhor_score * len(times_palpites)
RECURSIVE RodadaInferida(_, _, _, _, _)
RodadaInferida(times_palpites, rodadas, k, melhor_rodada, melhores) ==
    IF k > Len(rodadas)
    THEN IF 2 * melhores >= Cardinality(times_palpites) THEN melhor_rodada ELSE <<>>
    ELSE IF TimesNormalizados(rodadas[k].jogos) = {}
    THEN RodadaInferida(times_palpites, rodadas, k + 1, melhor_rodada, melhores)
    ELSE IF Correspondencias(times_palpites, rodadas[k]) = Cardinality(times_palpites)
    THEN <<rodadas[k].numero>>
    ELSE IF ScoreMelhor(Correspondencias(times_palpites, rodadas[k]), melhores)
    THEN RodadaInferida(times_palpites, rodadas, k + 1, <<rodadas[k].numero>>,
                        Correspondencias(times_palpites, rodadas[k]))
    ELSE RodadaInferida(times_palpites, rodadas, k + 1, melhor_rodada, melhores)

\* <<>> is None
inferir_rodada(palpites, tabela) ==
    IF palpites = <<>> \/ tabela.rodadas = <<>> THEN <<>>
    ELSE RodadaInferida(TimesNormalizados(palpites), tabela.rodadas, 1, <<>>, 0)

InitInferir ==
    /\ palpite = [palpite_mandante |-> 0, palpite_visitante |-> 0]
    /\ resultado = [gols_mandante |-> 0, gols_visitante |-> 0]
    /\ total_acertos = 0
    /\ saida = <<>>
    /\ regras = RegrasPadrao
    /\ tabelaArq = TabelaVazia
    /\ palpitesArq = <<>>
    /\ backups = <<>>
    /\ relatorios = <<>>
    /\ relogio = 0
    /\ exec = ExecInicial
    /\ ingest = IngestInicial
    /\ texto \in [palpites : ListasDeMencoes, tabela : TabelasDeRodadas]
    /\ analise = <<>>

InferirRodada ==
    /\ analise = <<>>
    /\ analise' = <<[valor |-> inferir_rodada(texto.palpites, texto.tabela)]>>
    /\ UNCHANGED <<varsPontuacao, regras, varsArquivos, exec, ingest, texto>>

NextInferir ==
    \/ InferirRodada

SpecInferir == InitInferir /\ [][NextInferir]_vars

-----------------------------------------------------------------------------
(* Claims about inferir_rodada, checked under SpecInferir *)

TimesMencionados == TimesNormalizados(texto.palpites)

\* how many of the mentioned teams play in the k-th round of the schedule
Presentes(k) ==
    Cardinality({t \in TimesMencionados : t \in TimesNormalizados(texto.tabela.rodadas[k].jogos)})

\* rounds, in schedule order, in which every mentioned team appears
RodadasCompletas ==
    {k \in DOMAIN texto.tabela.rodadas : Presentes(k) = Cardinality(TimesMencionados)}

\* rounds with the greatest share of the mentioned teams
RodadasMaisCheias ==
    {k \in DOMAIN texto.tabela.rodadas :
        \A j \in DOMAIN texto.tabela.rodadas : Presentes(j) <= Presentes(k)}

\* C21: inferir_rodada returns the first round, in schedule order, in which
\* every mentioned team appears; otherwise the round with the greatest share
\* of the mentioned teams when that share is at least one half, the earliest
\* such round on ties; otherwise none.
C21_RodadaInferida ==
    analise # <<>> =>
        IF texto.palpites = <<>> THEN analise[1].valor = <<>>
        ELSE IF RodadasCompletas # {}
        THEN analise[1].valor = <<texto.tabela.rodadas[MenorDe(RodadasCompletas)].numero>>
        ELSE IF /\ RodadasMaisCheias # {}
                /\ Presentes(MenorDe(RodadasMaisCheias)) > 0
                /\ 2 * Presentes(MenorDe(RodadasMaisCheias)) >= Cardinality(TimesMencionados)
        THEN analise[1].valor = <<texto.tabela.rodadas[MenorDe(RodadasMaisCheias)].numero>>
        ELSE analise[1].valor = <<>>

\* both teams of the prediction play only in the second round of the schedule
C21_Witness ==
    /\ analise # <<>>
    /\ texto.palpites = <<Confronto(<<"a", "b">>, <<"b", "a">>)>>
    /\ Len(texto.tabela.rodadas) = 2
    /\ texto.tabela.rodadas[1].numero = 1
    /\ texto.tabela.rodadas[2].numero = 2
    /\ analise[1].valor = <<2>>

\* two rounds with the same share of one half: the earlier one is returned
C21_WitnessEmpate ==
    /\ analise # <<>>
    /\ texto.palpites = <<Confronto(<<"A">>, <<"b", "a">>)>>
    /\ Len(texto.tabela.rodadas) = 2
    /\ texto.tabela.rodadas[1].numero = 2
    /\ texto.tabela.rodadas[2].numero = 1
    /\ analise[1].valor = <<2>>

=============================================================================
